---- MODULE Spec2Model ----
(***************************************************************************)
(* A model of the metrics aggregation and budget engine of                 *)
(* react-performance-analyzer: the PerformanceMonitor class, the enhanced  *)
(* window.performanceMonitor object built by                               *)
(* initializePerformanceMonitoring, the periodic memory sampling and the   *)
(* PerformanceComparator (src/src/core/performanceComparator.js).          *)
(*                                                                         *)
(* Init is the state of a browser page right after                         *)
(* initializePerformanceMonitoring() with its default configuration:       *)
(* the class instance is constructed, the enhanced object is installed    *)
(* and both sampling timers are scheduled.                                 *)
(***************************************************************************)
EXTENDS Integers, Sequences, FiniteSets, TLC

----------------------------------------------------------------------------
(* Bounds of the model (not program constants).                            *)

\* operations explored by SpecRender
MaxRenderOps == 4
\* operations explored by SpecBudget
MaxBudgetOps == 3
\* operations explored by SpecCmp
MaxCmpOps == 4
\* memory samplings explored by SpecMem (more than the cap of 100)
MaxMemOps == 103
\* budget checks explored by SpecHist (more than the cap of 50)
MaxHistChecks == 52
\* render measurements interleaved with the checks of SpecHist
MaxHistRenders == 1
\* history entries appended for one child by SpecTrack (more than the cap)
MaxTrackOps == 102
\* other dependencies tracked in between by SpecTrack
MaxTrackOthers == 1
\* SpecTrack tracks them while the child has at most this many entries, or
\* once its history is full
MaxTrackEarly == 2
\* operations explored by SpecDeps
MaxDepOps == 4
\* history entries of the analysed component in SpecBottle
MaxListRenders == 5
\* times Date.now() advances in SpecBottle
MaxClockSteps == 1
\* children tracked under the analysed component in SpecBottle (more than
\* the 10 that make a bottleneck)
MaxItems == 11
\* operations explored by SpecSession
MaxSessionOps == 4
\* operations explored by SpecStore
MaxStoreOps == 4

----------------------------------------------------------------------------
(* Program constants.                                                      *)

\* this.thresholds.slowRender
SlowRenderThreshold == 16
\* "Keep only last 100 measurements"
MemorySampleCap == 100
\* "Keep only last 50 violation records"
ViolationHistoryCap == 50

MB == 1024 * 1024

\* this.performanceBudgets as constructed
DefaultBudgets ==
    [renderTime |-> 16,
     totalRenderTime |-> 100,
     memoryUsage |-> 50 * MB,
     bundleSize |-> 2 * MB,
     componentCount |-> 100,
     reRendersPerSecond |-> 30]

\* const metrics = ['renderTime', 'memoryUsage', 'bundleSize', 'loadTime']
ComparedMetrics == <<"renderTime", "memoryUsage", "bundleSize", "loadTime">>

\* Property names every plain object ({}) inherits from Object.prototype;
\* obj[name] yields the inherited function for them (two representatives).
ObjectProtoKeys == {"constructor", "toString"}

----------------------------------------------------------------------------
(* JavaScript numbers: exact rationals n/d in lowest terms (d > 0), NaN,   *)
(* the two infinities, and the value undefined.                            *)

Abs(i) == IF i < 0 THEN -i ELSE i

RECURSIVE GCD(_, _)
GCD(a, b) == IF b = 0 THEN a ELSE GCD(b, a % b)

Undefined == [k |-> "undefined", n |-> 0, d |-> 1]
NaN == [k |-> "NaN", n |-> 0, d |-> 1]
PosInf == [k |-> "Infinity", n |-> 1, d |-> 1]
NegInf == [k |-> "Infinity", n |-> -1, d |-> 1]

Rat(n, d) ==
    LET g == GCD(Abs(n), Abs(d))
        s == IF d < 0 THEN -1 ELSE 1
    IN  [k |-> "number", n |-> (s * n) \div g, d |-> (s * d) \div g]

Num(i) == [k |-> "number", n |-> i, d |-> 1]

\* ToNumber: undefined converts to NaN
ToNumber(x) == IF x.k = "undefined" THEN NaN ELSE x

IsFinite(x) == x.k = "number"

JsNeg(x) ==
    LET a == ToNumber(x)
    IN  IF a.k = "NaN" THEN NaN ELSE [a EXCEPT !.n = -a.n]

\* a + b
JsAdd(x, y) ==
    LET a == ToNumber(x)
        b == ToNumber(y)
    IN  IF a.k = "NaN" \/ b.k = "NaN" THEN NaN
        ELSE IF a.k = "Infinity" /\ b.k = "Infinity"
             THEN (IF a.n = b.n THEN a ELSE NaN)
        ELSE IF a.k = "Infinity" THEN a
        ELSE IF b.k = "Infinity" THEN b
        ELSE Rat(a.n * b.d + b.n * a.d, a.d * b.d)

\* a - b
JsSub(x, y) == JsAdd(x, JsNeg(y))

Sign(i) == IF i > 0 THEN 1 ELSE IF i < 0 THEN -1 ELSE 0

\* a * b
JsMul(x, y) ==
    LET a == ToNumber(x)
        b == ToNumber(y)
    IN  IF a.k = "NaN" \/ b.k = "NaN" THEN NaN
        ELSE IF a.k = "Infinity" \/ b.k = "Infinity"
             THEN (IF a.n = 0 \/ b.n = 0 THEN NaN
                   ELSE IF Sign(a.n) * Sign(b.n) > 0 THEN PosInf ELSE NegInf)
        ELSE Rat(a.n * b.n, a.d * b.d)

\* a / b: 0/0 is NaN, x/0 is an infinity of the sign of x
JsDiv(x, y) ==
    LET a == ToNumber(x)
        b == ToNumber(y)
    IN  IF a.k = "NaN" \/ b.k = "NaN" THEN NaN
        ELSE IF a.k = "Infinity"
             THEN (IF b.k = "Infinity" THEN NaN
                   ELSE IF Sign(a.n) * (IF b.n < 0 THEN -1 ELSE 1) > 0
                        THEN PosInf ELSE NegInf)
        ELSE IF b.k = "Infinity" THEN Num(0)
        ELSE IF b.n = 0
             THEN (IF a.n = 0 THEN NaN
                   ELSE IF a.n > 0 THEN PosInf ELSE NegInf)
        ELSE Rat(a.n * b.d, a.d * b.n)

\* a < b: false as soon as one side is NaN
JsLt(x, y) ==
    LET a == ToNumber(x)
        b == ToNumber(y)
    IN  IF a.k = "NaN" \/ b.k = "NaN" THEN FALSE
        ELSE IF a.k = "Infinity" /\ b.k = "Infinity" THEN a.n < b.n
        ELSE IF a.k = "Infinity" THEN a.n < 0
        ELSE IF b.k = "Infinity" THEN b.n > 0
        ELSE a.n * b.d < b.n * a.d

\* a > b
JsGt(x, y) == JsLt(y, x)

\* Math.max(a, b)
JsMax(x, y) ==
    LET a == ToNumber(x)
        b == ToNumber(y)
    IN  IF a.k = "NaN" \/ b.k = "NaN" THEN NaN
        ELSE IF JsLt(a, b) THEN b ELSE a

\* Math.abs(a)
JsAbs(x) ==
    LET a == ToNumber(x)
    IN  IF a.k = "NaN" THEN NaN ELSE [a EXCEPT !.n = Abs(a.n)]

----------------------------------------------------------------------------
(* Sequence helpers.                                                       *)

\* push with the cap test off by one: evicts only above cap + 1
PushCappedLate(s, x, cap) ==
    LET t == Append(s, x)
    IN  IF Len(t) > cap + 1 THEN Tail(t) ELSE t

\* push that evicts with pop() instead of shift(): drops the newest
PushCappedPop(s, x, cap) ==
    LET t == Append(s, x)
    IN  IF Len(t) > cap THEN SubSeq(t, 1, Len(t) - 1) ELSE t

\* array.push(x) followed by "if (array.length > cap) array.shift()"
PushCapped(s, x, cap) ==
    LET t == Append(s, x)
    IN  IF Len(t) > cap THEN Tail(t) ELSE t

\* the last min(Len(s), n) elements of s, in order
LastN(s, n) ==
    IF Len(s) <= n THEN s ELSE SubSeq(s, Len(s) - n + 1, Len(s))

RECURSIVE SumSeq(_)
SumSeq(s) == IF s = <<>> THEN 0 ELSE Head(s) + SumSeq(Tail(s))

RECURSIVE MaxSeq(_)
MaxSeq(s) ==
    IF Len(s) = 1 THEN Head(s)
    ELSE LET m == MaxSeq(Tail(s)) IN IF Head(s) > m THEN Head(s) ELSE m

\* values of a Map in some order, summed (integer addition commutes)
RECURSIVE SumValues(_)
SumValues(f) ==
    IF DOMAIN f = {} THEN 0
    ELSE LET x == CHOOSE y \in DOMAIN f : TRUE
         IN  f[x] + SumValues([z \in DOMAIN f \ {x} |-> f[z]])

\* map.set(key, value)
MapSet(f, key, value) ==
    [x \in DOMAIN f \cup {key} |-> IF x = key THEN value ELSE f[x]]

EmptyMap == [x \in {} |-> 0]

----------------------------------------------------------------------------
(* State.                                                                  *)

VARIABLES
    \* PerformanceMonitor instance (performanceMonitor)
    componentRenderTimes,   \* metrics.componentRenderTimes: Map name -> ms
    bundleLoadTimes,        \* metrics.bundleLoadTimes: Map name -> ms
    memoryUsage,            \* metrics.memoryUsage: array of samples
    slowComponents,         \* metrics.slowComponents: Set of names
    performanceBudgets,     \* performanceBudgets: object type -> value
    budgetViolations,       \* budgetViolations: array of batches
    \* closure of initializePerformanceMonitoring
    pdRenderTimes,          \* performanceData.renderTimes
    pdMemoryUsage,          \* performanceData.memoryUsage
    pdComponentMetrics,     \* performanceData.componentMetrics (own keys)
    isMonitoring,           \* performanceData.isMonitoring
    leakTimer,              \* the interval of detectMemoryLeaks is scheduled
    \* properties written onto the functions inherited from Object.prototype
    protoProps,
    \* PerformanceComparator instance
    baselines, currentMetrics, comparisonResults,
    \* environment
    now,                    \* the next value of Date.now()
    hasMemory,              \* performance.memory exists on this host
    \* observation of the run
    ops,                    \* operations performed
    lastOp,                 \* name of the last operation
    args,                   \* its arguments
    ret,                    \* its return value
    renderLog,              \* per name, the durations recorded since clearData
    memLog,                 \* the memory samples inserted since clearData
    batchLog,               \* every non-empty violation list returned, stamped
    \* PerformanceMonitor instance: dependency tracking and profiling
    dependencyGraph,        \* dependencyGraph: Map parent -> Set of children
    renderHistory,          \* metrics.renderHistory: Map child -> array
    currentSession,         \* currentSession: the single session slot
    scan,                   \* the running call of getComponentDependencies
    \* observation of the run, continued
    histLog,                \* per child, every history entry appended
    trackLog,               \* the <<parent, child>> pairs tracked
    sessionLog,             \* the session starts and ends, in order
    \* host page and the timers of initializePerformanceMonitoring
    memoryTimer,            \* the memoryInterval timer is scheduled
    measurements,           \* the measurements array of detectMemoryLeaks
    devtoolsTimers,         \* intervals of the detectors of enableDevtools
    development,            \* process.env.NODE_ENV === 'development'
    windowMonitor,          \* what window.performanceMonitor refers to
    \* one mounted component using usePerformanceMonitoring
    startTimeRef,           \* startTimeRef.current
    hookMetrics,            \* the metrics state: operation -> duration
    timingLog               \* per operation, when its unmatched timing began

monitorVars == <<componentRenderTimes, bundleLoadTimes, memoryUsage,
                 slowComponents, performanceBudgets, budgetViolations>>
enhancedVars == <<pdRenderTimes, pdMemoryUsage, pdComponentMetrics,
                  isMonitoring, leakTimer, protoProps>>
comparatorVars == <<baselines, currentMetrics, comparisonResults>>
envVars == <<now, hasMemory>>
logVars == <<renderLog, memLog, batchLog>>
trackerVars == <<dependencyGraph, renderHistory, histLog, trackLog>>
sessionVars == <<currentSession, sessionLog>>
profilingVars == <<trackerVars, sessionVars, scan>>
hostVars == <<memoryTimer, measurements, devtoolsTimers, development,
              windowMonitor>>
hookVars == <<startTimeRef, hookMetrics, timingLog>>
vars == <<monitorVars, enhancedVars, comparatorVars, envVars, logVars,
          profilingVars, hostVars, hookVars, ops, lastOp, args, ret>>

Null == [kind |-> "null"]
Void == [kind |-> "undefined"]

\* no call of getComponentDependencies is running
NoScan == [active |-> FALSE]

\* the own properties of a freshly created per-component metrics object
NewComponentMetrics ==
    [renderCount |-> Num(0), totalRenderTime |-> Num(0),
     maxRenderTime |-> Num(0), averageRenderTime |-> Undefined]

\* the same four properties read from a function that never had them
NoMetricsProps ==
    [renderCount |-> Undefined, totalRenderTime |-> Undefined,
     maxRenderTime |-> Undefined, averageRenderTime |-> Undefined]

Init ==
    /\ componentRenderTimes = EmptyMap
    /\ bundleLoadTimes = EmptyMap
    /\ memoryUsage = <<>>
    /\ slowComponents = {}
    /\ performanceBudgets = DefaultBudgets
    /\ budgetViolations = <<>>
    /\ pdRenderTimes = <<>>
    /\ pdMemoryUsage = <<>>
    /\ pdComponentMetrics = EmptyMap
    /\ isMonitoring = TRUE
    /\ leakTimer = TRUE
    /\ protoProps = [x \in ObjectProtoKeys |-> NoMetricsProps]
    /\ baselines = EmptyMap
    /\ currentMetrics = EmptyMap
    /\ comparisonResults = <<>>
    /\ now = 1
    /\ hasMemory \in BOOLEAN
    /\ ops = 0
    /\ lastOp = "init"
    /\ args = <<>>
    /\ ret = Void
    /\ renderLog = EmptyMap
    /\ memLog = <<>>
    /\ batchLog = <<>>
    /\ dependencyGraph = <<>>
    /\ renderHistory = EmptyMap
    /\ currentSession = Void
    /\ scan = NoScan
    /\ histLog = EmptyMap
    /\ trackLog = {}
    /\ sessionLog = <<>>
    /\ memoryTimer = TRUE
    /\ measurements = <<>>
    /\ devtoolsTimers = 0
    /\ development = FALSE
    /\ windowMonitor = "enhanced"
    /\ startTimeRef = Null
    /\ hookMetrics = EmptyMap
    /\ timingLog = EmptyMap

\* bookkeeping of every operation
Done(op, arguments, value) ==
    /\ lastOp' = op
    /\ args' = arguments
    /\ ret' = value

\* one more operation, while fewer than max were performed
Counted(max) ==
    /\ ops < max
    /\ ops' = ops + 1

----------------------------------------------------------------------------
(* Enhanced window.performanceMonitor: recordRender, clearData,            *)
(* getPerformanceData, startMonitoring, stopMonitoring.                    *)

\* obj[key] is truthy: an own entry, or a function inherited from
\* Object.prototype
HasTruthy(obj, key) == key \in DOMAIN obj \/ key \in ObjectProtoKeys

\* the four metrics properties of obj[key]
MetricsOf(obj, proto, key) ==
    IF key \in DOMAIN obj THEN obj[key]
    ELSE IF key \in ObjectProtoKeys THEN proto[key]
    ELSE NoMetricsProps

\* metrics.renderCount++; metrics.totalRenderTime += renderTime; ...
UpdateMetrics(m, renderTime) ==
    LET count == JsAdd(m.renderCount, Num(1))
        total == JsAdd(m.totalRenderTime, Num(renderTime))
    IN  [renderCount |-> count,
         totalRenderTime |-> total,
         maxRenderTime |-> JsMax(m.maxRenderTime, Num(renderTime)),
         averageRenderTime |-> JsDiv(total, count)]

\* the statements of recordRender
RecordRenderBody(componentName, renderTime) ==
    LET created == IF ~HasTruthy(pdComponentMetrics, componentName)
                   THEN MapSet(pdComponentMetrics, componentName,
                               NewComponentMetrics)
                   ELSE pdComponentMetrics
        own == componentName \in DOMAIN created
        updated == UpdateMetrics(MetricsOf(created, protoProps, componentName),
                                 renderTime)
    IN  /\ componentRenderTimes' =
               MapSet(componentRenderTimes, componentName, renderTime)
        /\ pdRenderTimes' = Append(pdRenderTimes, renderTime)
        /\ pdComponentMetrics' =
               IF own THEN [created EXCEPT ![componentName] = updated]
               ELSE created
        /\ protoProps' =
               IF own THEN protoProps
               ELSE [protoProps EXCEPT ![componentName] = updated]
        /\ renderLog' =
               MapSet(renderLog, componentName,
                      Append(IF componentName \in DOMAIN renderLog
                             THEN renderLog[componentName] ELSE <<>>,
                             renderTime))

RecordRender(componentName, renderTime) ==
    /\ RecordRenderBody(componentName, renderTime)
    /\ Done("recordRender", <<componentName, renderTime>>, Void)
    /\ UNCHANGED <<bundleLoadTimes, memoryUsage, slowComponents,
                   performanceBudgets, budgetViolations, pdMemoryUsage,
                   isMonitoring, leakTimer, comparatorVars, profilingVars,
                   envVars, memLog, batchLog, hostVars, hookVars>>

ClearData ==
    /\ pdRenderTimes' = <<>>
    /\ pdMemoryUsage' = <<>>
    /\ pdComponentMetrics' = EmptyMap
    /\ componentRenderTimes' = EmptyMap
    /\ bundleLoadTimes' = EmptyMap
    /\ slowComponents' = {}
    /\ memoryUsage' = <<>>
    /\ renderLog' = EmptyMap
    /\ memLog' = <<>>
    /\ Done("clearData", <<>>, Void)
    /\ UNCHANGED <<performanceBudgets, budgetViolations, isMonitoring,
                   leakTimer, protoProps, comparatorVars, profilingVars,
                   envVars, batchLog, hostVars, hookVars>>

\* getPerformanceData().componentMetrics: the spread of performanceData
\* overrides the per-name view built from componentRenderTimes
ReportedMetrics(componentName) ==
    MetricsOf(pdComponentMetrics, protoProps, componentName)

StartMonitoring ==
    /\ isMonitoring' = TRUE
    /\ Done("startMonitoring", <<>>, Void)
    /\ UNCHANGED <<monitorVars, pdRenderTimes, pdMemoryUsage,
                   pdComponentMetrics, leakTimer, protoProps,
                   comparatorVars, profilingVars, envVars, logVars,
                   hostVars, hookVars>>

\* stopMemoryMonitoring() is the cleanup of detectMemoryLeaks: clearInterval
StopMonitoring ==
    /\ isMonitoring' = FALSE
    /\ leakTimer' = FALSE
    /\ Done("stopMonitoring", <<>>, Void)
    /\ UNCHANGED <<monitorVars, pdRenderTimes, pdMemoryUsage,
                   pdComponentMetrics, protoProps,
                   comparatorVars, profilingVars, envVars, logVars,
                   hostVars, hookVars>>

----------------------------------------------------------------------------
(* Memory sampling: PerformanceMonitor.measureMemoryUsage and the          *)
(* memoryInterval timer of initializePerformanceMonitoring.                *)

\* performance.memory.totalJSHeapSize and jsHeapSizeLimit of the host
HeapTotal == 256 * MB
HeapLimit == 1024 * MB

\* the usage object built from performance.memory and Date.now()
Usage(used) ==
    [used |-> used, total |-> HeapTotal, limit |-> HeapLimit,
     timestamp |-> now]

\* array after metrics.memoryUsage.push(usage) and the eviction
StoreSample(samples, usage) == PushCapped(samples, usage, MemorySampleCap)

\* the body of measureMemoryUsage; used is performance.memory.usedJSHeapSize
MeasureMemoryUsage(used) ==
    IF hasMemory
    THEN /\ memoryUsage' = StoreSample(memoryUsage, Usage(used))
         /\ memLog' = Append(memLog, Usage(used))
         /\ now' = now + 1
    ELSE UNCHANGED <<memoryUsage, memLog, now>>

\* performanceMonitor.measureMemoryUsage() called directly
MeasureMemoryUsageCall(used) ==
    /\ MeasureMemoryUsage(used)
    /\ Done("measureMemoryUsage", <<>>, IF hasMemory THEN Usage(used) ELSE Null)
    /\ UNCHANGED <<componentRenderTimes, bundleLoadTimes, slowComponents,
                   performanceBudgets, budgetViolations, enhancedVars,
                   comparatorVars, profilingVars,
                   hasMemory, renderLog, batchLog, hostVars, hookVars>>

\* one firing of the memoryInterval timer
MemoryIntervalTick(used) ==
    /\ memoryTimer
    /\ IF isMonitoring
       THEN /\ MeasureMemoryUsage(used)
            /\ pdMemoryUsage' =
                   IF hasMemory
                   THEN PushCapped(pdMemoryUsage, used, MemorySampleCap)
                   ELSE pdMemoryUsage
       ELSE UNCHANGED <<memoryUsage, memLog, now, pdMemoryUsage>>
    /\ Done("memoryInterval", <<>>, Void)
    /\ UNCHANGED <<componentRenderTimes, bundleLoadTimes, slowComponents,
                   performanceBudgets, budgetViolations, pdRenderTimes,
                   pdComponentMetrics, isMonitoring, leakTimer, protoProps,
                   comparatorVars, profilingVars,
                   hasMemory, renderLog, batchLog, hostVars, hookVars>>

----------------------------------------------------------------------------
(* PerformanceMonitor: measureComponentRender, setPerformanceBudget,       *)
(* checkPerformanceBudgets.                                                *)

\* renderTime is endTime - startTime as read from performance.now()
MeasureComponentRender(componentName, renderTime) ==
    /\ componentRenderTimes' =
           MapSet(componentRenderTimes, componentName, renderTime)
    /\ slowComponents' =
           IF renderTime > SlowRenderThreshold
           THEN slowComponents \cup {componentName}
           ELSE slowComponents
    /\ Done("measureComponentRender", <<componentName, renderTime>>, Void)
    /\ UNCHANGED <<bundleLoadTimes, memoryUsage, performanceBudgets,
                   budgetViolations, enhancedVars, comparatorVars,
                   profilingVars,
                   envVars, logVars, hostVars, hookVars>>

\* a test with the in operator, which also sees inherited properties
HasBudgetIn(budgets, budgetType) ==
    budgetType \in DOMAIN budgets \cup ObjectProtoKeys

\* Object.prototype.hasOwnProperty.call(this.performanceBudgets, budgetType)
HasOwnBudget(budgets, budgetType) == budgetType \in DOMAIN budgets

SetPerformanceBudget(budgetType, value) ==
    /\ performanceBudgets' =
           IF HasOwnBudget(performanceBudgets, budgetType)
           THEN MapSet(performanceBudgets, budgetType, value)
           ELSE performanceBudgets
    /\ Done("setPerformanceBudget", <<budgetType, value>>, Void)
    /\ UNCHANGED <<componentRenderTimes, bundleLoadTimes, memoryUsage,
                   slowComponents, budgetViolations, enhancedVars,
                   comparatorVars, profilingVars, envVars, logVars,
                   hostVars, hookVars>>

\* avgRenderTime > this.performanceBudgets.renderTime * 2
RenderSeverity(actual, budget) ==
    IF JsGt(actual, JsMul(Num(budget), Num(2))) THEN "critical" ELSE "warning"

\* a memory severity with the factor of the render rule
MemorySeverityTwice(actual, budget) ==
    IF JsGt(actual, JsMul(Num(budget), Num(2))) THEN "critical" ELSE "warning"

\* currentMemory > this.performanceBudgets.memoryUsage * 1.5
MemorySeverity(actual, budget) ==
    IF JsGt(actual, JsMul(Num(budget), Rat(3, 2)))
    THEN "critical" ELSE "warning"

Violation(type, budget, actual, severity) ==
    [type |-> type, budget |-> Num(budget), actual |-> actual,
     severity |-> severity]

\* a component-count test that also fires at the budget
CountExceedsOrMeets(count, budget) == count >= budget

\* componentCount > this.performanceBudgets.componentCount
CountExceeds(count, budget) == count > budget

\* the violations array built by checkPerformanceBudgets
Violations(renderTimes, samples, budgets) ==
    LET count == Cardinality(DOMAIN renderTimes)
        totalRenderTime == Num(SumValues(renderTimes))
        avgRenderTime == IF count > 0
                         THEN JsDiv(totalRenderTime, Num(count))
                         ELSE Num(0)
        currentMemory == IF Len(samples) > 0
                         THEN Num(samples[Len(samples)].used)
                         ELSE Num(0)
    IN  (IF JsGt(avgRenderTime, Num(budgets.renderTime))
         THEN <<Violation("renderTime", budgets.renderTime, avgRenderTime,
                          RenderSeverity(avgRenderTime, budgets.renderTime))>>
         ELSE <<>>)
        \o
        (IF JsGt(totalRenderTime, Num(budgets.totalRenderTime))
         THEN <<Violation("totalRenderTime", budgets.totalRenderTime,
                          totalRenderTime, "warning")>>
         ELSE <<>>)
        \o
        (IF JsGt(currentMemory, Num(budgets.memoryUsage))
         THEN <<Violation("memoryUsage", budgets.memoryUsage, currentMemory,
                          MemorySeverity(currentMemory, budgets.memoryUsage))>>
         ELSE <<>>)
        \o
        (IF CountExceeds(count, budgets.componentCount)
         THEN <<Violation("componentCount", budgets.componentCount,
                          Num(count), "info")>>
         ELSE <<>>)

\* a check that reports a list only when it differs from the last batch
CurrentViolationsOnce ==
    LET v == Violations(componentRenderTimes, memoryUsage, performanceBudgets)
    IN  IF /\ budgetViolations # <<>>
           /\ budgetViolations[Len(budgetViolations)].violations = v
        THEN <<>> ELSE v

\* the list checkPerformanceBudgets returns in the current state
CurrentViolations ==
    Violations(componentRenderTimes, memoryUsage, performanceBudgets)

\* budgetViolations after "if (violations.length > 0) { push; shift }"
StoreViolations(history, violations, timestamp) ==
    IF Len(violations) > 0
    THEN PushCapped(history,
                    [timestamp |-> timestamp, violations |-> violations],
                    ViolationHistoryCap)
    ELSE history

CheckPerformanceBudgets ==
    LET violations == CurrentViolations
    IN  /\ budgetViolations' = StoreViolations(budgetViolations, violations, now)
        /\ now' = now + 1
        /\ batchLog' =
               IF violations # <<>>
               THEN Append(batchLog,
                           [timestamp |-> now, violations |-> violations])
               ELSE batchLog
        /\ Done("checkPerformanceBudgets", <<>>,
                [kind |-> "violations", list |-> violations])
        /\ UNCHANGED <<componentRenderTimes, bundleLoadTimes, memoryUsage,
                       slowComponents, performanceBudgets, enhancedVars,
                       comparatorVars, profilingVars,
                       hasMemory, renderLog, memLog, hostVars, hookVars>>

----------------------------------------------------------------------------
(* SpecMem: memory sampling by the timer and by direct callers, past the   *)
(* cap of the sample array.                                                *)

\* usedJSHeapSize read by the samplings of SpecMem
MemHeapUsed == {40 * MB}

NextMem ==
    \/ /\ Len(memLog) < MaxMemOps
       /\ \E used \in MemHeapUsed : MeasureMemoryUsageCall(used)
       /\ UNCHANGED ops
    \/ /\ Len(memLog) < MaxMemOps
       /\ \E used \in MemHeapUsed : MemoryIntervalTick(used)
       /\ UNCHANGED ops
    \/ /\ StopMonitoring
       /\ UNCHANGED ops
    \/ /\ StartMonitoring
       /\ UNCHANGED ops

SpecMem == Init /\ [][NextMem]_vars

\* C2: the stored memory-sample sequence never holds more than 100 samples,
\* and it is exactly the last min(k, 100) of the k samples inserted, in
\* insertion order (oldest evicted first).
C2_MemorySamplesCapped ==
    /\ Len(memoryUsage) <= MemorySampleCap
    /\ memoryUsage = LastN(memLog, MemorySampleCap)

\* more than 100 samples were inserted, the last one by the timer
C2_Witness ==
    /\ Len(memLog) > MemorySampleCap
    /\ Len(memoryUsage) = MemorySampleCap
    /\ lastOp = "memoryInterval"
    /\ memoryUsage[1].timestamp > 1

----------------------------------------------------------------------------
(* SpecRender: recordRender and clearData on the enhanced object.          *)

RenderNames == {"Analysis", "Header", "toString"}
RenderDurations == {0, 2, 5}

NextRender ==
    \/ /\ Counted(MaxRenderOps)
       /\ \E name \in RenderNames, d \in RenderDurations :
              RecordRender(name, d)
    \/ /\ Counted(MaxRenderOps)
       /\ ClearData

SpecRender == Init /\ [][NextRender]_vars

\* what the claim expects of the metrics of a name after the calls in log
ExpectedMetrics(log) ==
    [renderCount |-> Num(Len(log)),
     totalRenderTime |-> Num(SumSeq(log)),
     maxRenderTime |-> Num(MaxSeq(log)),
     averageRenderTime |-> Rat(SumSeq(log), Len(log))]

\* C1: for every component name with n >= 1 recordRender calls since
\* initialisation or the last clearData, the reported metrics are
\* renderCount = n, maxRenderTime = max, totalRenderTime = sum and
\* averageRenderTime = sum / n of the recorded durations.
C1_MetricsOfEveryName ==
    \A name \in DOMAIN renderLog :
        ReportedMetrics(name) = ExpectedMetrics(renderLog[name])

\* the same statement for the names that Object.prototype does not define
C1_MetricsOfOwnNames ==
    \A name \in DOMAIN renderLog \ ObjectProtoKeys :
        ReportedMetrics(name) = ExpectedMetrics(renderLog[name])

----------------------------------------------------------------------------
(* SpecBudget: budgets set, renders measured, memory sampled and budgets   *)
(* checked in every order.                                                 *)

\* the six budget names of the constructor
BudgetTypes == {"renderTime", "totalRenderTime", "memoryUsage", "bundleSize",
                "componentCount", "reRendersPerSecond"}

BudgetTypeInputs == BudgetTypes \cup {"toString", "fps"}
BudgetValueInputs == {-1, 0, 1}
BudgetNames == {"Analysis", "Header"}
BudgetDurations == {0, 20, 40}
BudgetHeapUsed == {60 * MB, 80 * MB, 110 * MB}

NextBudget ==
    \/ /\ Counted(MaxBudgetOps)
       /\ \E type \in BudgetTypeInputs, value \in BudgetValueInputs :
              SetPerformanceBudget(type, value)
    \/ /\ Counted(MaxBudgetOps)
       /\ \E name \in BudgetNames, t \in BudgetDurations :
              MeasureComponentRender(name, t)
    \/ /\ Counted(MaxBudgetOps)
       /\ \E used \in BudgetHeapUsed : MeasureMemoryUsageCall(used)
    \/ /\ Counted(MaxBudgetOps)
       /\ CheckPerformanceBudgets

SpecBudget == Init /\ [][NextBudget]_vars

\* the violations of the given types in the list last returned
ReturnedOfType(types) ==
    SelectSeq(ret.list, LAMBDA v : v.type \in types)

Checked == lastOp = "checkPerformanceBudgets"

\* C3: a call of checkPerformanceBudgets that directly follows another one
\* returns the same violation list, element by element.
C3_CheckIsIdempotentRead ==
    [][(Checked /\ Checked') => ret'.list = ret.list]_vars

\* two checks in a row, both reporting violations
C3_Witness ==
    /\ Checked
    /\ Len(ret.list) >= 1
    /\ Len(budgetViolations) >= 2
    /\ budgetViolations[Len(budgetViolations) - 1].violations = ret.list

\* C4: checkPerformanceBudgets returns exactly one componentCount violation,
\* of severity info, when the number of names holding a render time exceeds
\* the componentCount budget, and none when it does not.
C4_ComponentCountViolation ==
    Checked =>
        LET found == ReturnedOfType({"componentCount"})
        IN  IF Cardinality(DOMAIN componentRenderTimes)
                   > performanceBudgets.componentCount
            THEN /\ Len(found) = 1
                 /\ found[1].severity = "info"
                 /\ found[1].actual
                        = Num(Cardinality(DOMAIN componentRenderTimes))
            ELSE found = <<>>

\* a check with one component against a componentCount budget of 0
C4_Witness ==
    /\ Checked
    /\ Cardinality(DOMAIN componentRenderTimes) = 1
    /\ performanceBudgets.componentCount = 0
    /\ Len(ReturnedOfType({"componentCount"})) = 1

\* actual > factor * budget, with factor = fn / fd
Above(v, fn, fd) == JsGt(JsMul(v.actual, Num(fd)), JsMul(v.budget, Num(fn)))

C7_SetPerformanceBudget ==
    [][lastOp' = "setPerformanceBudget" =>
          /\ DOMAIN performanceBudgets' = BudgetTypes
          /\ \A type \in BudgetTypes :
                 performanceBudgets'[type] =
                     IF type = args'[1] THEN args'[2]
                     ELSE performanceBudgets[type]]_vars

\* a negative budget was accepted, then an unknown name was refused
C7_Witness ==
    /\ lastOp = "setPerformanceBudget"
    /\ args[1] = "toString"
    /\ performanceBudgets.renderTime = -1
    /\ DOMAIN performanceBudgets = BudgetTypes

----------------------------------------------------------------------------
(* SpecHist: budget checks repeated past the cap of the violation history, *)
(* with render measurements in between.                                    *)

HistNames == {"Analysis"}
HistDurations == {10, 40}

\* now - 1 checks were made: only the checks read Date.now() here
NextHist ==
    \/ /\ now <= MaxHistChecks
       /\ CheckPerformanceBudgets
       /\ UNCHANGED ops
    \/ /\ Counted(MaxHistRenders)
       /\ \E name \in HistNames, t \in HistDurations :
              MeasureComponentRender(name, t)

SpecHist == Init /\ [][NextHist]_vars

\* C6: the violation history never holds more than 50 batches; it is the
\* last min(k, 50) of the k timestamped batches of the checks that found a
\* violation, in order, so a check that finds none leaves it unchanged.
C6_ViolationHistoryCapped ==
    /\ Len(budgetViolations) <= ViolationHistoryCap
    /\ budgetViolations = LastN(batchLog, ViolationHistoryCap)

\* more than 50 checks found a violation, after one that found none
C6_Witness ==
    /\ Checked
    /\ Len(batchLog) > ViolationHistoryCap
    /\ Len(budgetViolations) = ViolationHistoryCap
    /\ budgetViolations[1].timestamp > batchLog[1].timestamp
    /\ batchLog[1].timestamp > 1

----------------------------------------------------------------------------
(* PerformanceComparator: setBaseline, recordCurrent, comparePerformance.  *)

\* { ...metrics, timestamp: Date.now() }
Stamped(metrics) == MapSet(metrics, "timestamp", Num(now))

SetBaseline(componentName, metrics) ==
    /\ baselines' = MapSet(baselines, componentName, Stamped(metrics))
    /\ now' = now + 1
    /\ Done("setBaseline", <<componentName>>, Void)
    /\ UNCHANGED <<monitorVars, enhancedVars, profilingVars, currentMetrics,
                   comparisonResults, hasMemory, logVars, hostVars, hookVars>>

RecordCurrent(componentName, metrics) ==
    /\ currentMetrics' = MapSet(currentMetrics, componentName, Stamped(metrics))
    /\ now' = now + 1
    /\ Done("recordCurrent", <<componentName>>, Void)
    /\ UNCHANGED <<monitorVars, enhancedVars, profilingVars, baselines,
                   comparisonResults, hasMemory, logVars, hostVars, hookVars>>

\* map.get(key): the entry, or undefined (standing for it: no property)
MapGet(map, key) == IF key \in DOMAIN map THEN map[key] ELSE EmptyMap

\* bag[metric]
Prop(bag, metric) == IF metric \in DOMAIN bag THEN bag[metric] ELSE Undefined

\* a missing-data test that gives up only when both entries are missing
MissingBoth(map1, map2, componentName) ==
    componentName \notin DOMAIN map1 /\ componentName \notin DOMAIN map2

\* !baseline || !current
MissingData(map1, map2, componentName) ==
    componentName \notin DOMAIN map1 \/ componentName \notin DOMAIN map2

\* a comparison of the metrics that either bag defines
ComparedEither(baseline, current, metric) ==
    Prop(baseline, metric).k # "undefined"
        \/ Prop(current, metric).k # "undefined"

\* baseline[metric] !== undefined && current[metric] !== undefined
ComparedBoth(baseline, current, metric) ==
    Prop(baseline, metric).k # "undefined"
        /\ Prop(current, metric).k # "undefined"

\* a difference taken the other way round
DifferenceSwapped(baseValue, currentValue) == JsSub(baseValue, currentValue)

\* const difference = currentValue - baseValue
Difference(baseValue, currentValue) == JsSub(currentValue, baseValue)

\* comparison.summary[metric]
MetricSummary(baseValue, currentValue) ==
    LET difference == Difference(baseValue, currentValue)
    IN  [baseline |-> baseValue,
         current |-> currentValue,
         difference |-> difference,
         percentChange |-> JsMul(JsDiv(JsSub(currentValue, baseValue),
                                       baseValue), Num(100)),
         improved |-> JsLt(difference, Num(0))]

\* the record built by comparePerformance from the two bags
Comparison(componentName, baseline, current) ==
    LET compared == {ComparedMetrics[i] : i \in
                        {j \in 1..Len(ComparedMetrics) :
                            ComparedBoth(baseline, current,
                                         ComparedMetrics[j])}}
        summary == [m \in compared |->
                       MetricSummary(Prop(baseline, m), Prop(current, m))]
    IN  [componentName |-> componentName,
         baseline |-> baseline,
         current |-> current,
         improvements |->
             [m \in {x \in compared : JsLt(summary[x].difference, Num(0))}
                 |-> JsAbs(summary[m].percentChange)],
         regressions |->
             [m \in {x \in compared : JsGt(summary[x].difference, Num(0))}
                 |-> summary[m].percentChange],
         summary |-> summary]

ComparePerformance(componentName) ==
    LET comparison == Comparison(componentName,
                                 MapGet(baselines, componentName),
                                 MapGet(currentMetrics, componentName))
    IN  /\ IF MissingData(baselines, currentMetrics, componentName)
           THEN /\ UNCHANGED comparisonResults
                /\ Done("comparePerformance", <<componentName>>, Null)
           ELSE /\ comparisonResults' = Append(comparisonResults, comparison)
                /\ Done("comparePerformance", <<componentName>>,
                        [kind |-> "comparison", value |-> comparison])
        /\ UNCHANGED <<monitorVars, enhancedVars, profilingVars,
                       baselines, currentMetrics, envVars, logVars,
                       hostVars, hookVars>>

----------------------------------------------------------------------------
(* SpecCmp: baselines and current metrics recorded and compared.           *)

\* the bags of compareAnalysisComponent (28.5 and 12.3 as exact fractions)
ScenarioBaseline ==
    [renderTime |-> Rat(285, 10), memoryUsage |-> Num(5200000),
     loadTime |-> Num(1200)]
ScenarioCurrent ==
    [renderTime |-> Rat(123, 10), memoryUsage |-> Num(2800000),
     loadTime |-> Num(650)]

CmpBags ==
    {ScenarioBaseline, ScenarioCurrent,
     EmptyMap,
     [renderTime |-> Num(1)],
     [renderTime |-> Num(2), bundleSize |-> Num(1), fps |-> Num(60)],
     [renderTime |-> Num(2), bundleSize |-> Num(2), loadTime |-> Undefined],
     [renderTime |-> Num(0), fps |-> Num(30), loadTime |-> Num(3)],
     [bundleSize |-> Num(1), memoryUsage |-> Num(7)]}

CmpSetNames == {"Analysis"}
CmpNames == {"Analysis", "Header"}

NextCmp ==
    \/ /\ Counted(MaxCmpOps)
       /\ \E name \in CmpSetNames, bag \in CmpBags : SetBaseline(name, bag)
    \/ /\ Counted(MaxCmpOps)
       /\ \E name \in CmpSetNames, bag \in CmpBags : RecordCurrent(name, bag)
    \/ /\ Counted(MaxCmpOps)
       /\ \E name \in CmpNames : ComparePerformance(name)

SpecCmp == Init /\ [][NextCmp]_vars

Compared == lastOp = "comparePerformance"

\* C8: comparePerformance(name) returns null, and leaves the result log and
\* both maps unchanged, when name lacks a baseline or a current entry; it
\* returns a record when both exist.
C8_NullWhenEntryMissing ==
    [][lastOp' = "comparePerformance" =>
          IF args'[1] \in DOMAIN baselines
                /\ args'[1] \in DOMAIN currentMetrics
          THEN ret'.kind = "comparison"
          ELSE /\ ret' = Null
               /\ UNCHANGED comparatorVars]_vars

\* a comparison asked with a baseline but no current entry
C8_Witness ==
    /\ Compared
    /\ ret = Null
    /\ args[1] \in DOMAIN baselines
    /\ args[1] \notin DOMAIN currentMetrics

\* metric is a defined property of the bag
DefinedIn(bag, metric) ==
    metric \in DOMAIN bag /\ bag[metric].k # "undefined"

FourMetrics == {"renderTime", "memoryUsage", "bundleSize", "loadTime"}

\* C9: the keys of summary are exactly the metrics among renderTime,
\* memoryUsage, bundleSize and loadTime defined in both bags; improvements
\* and regressions hold no other key.
C9_SummaryKeys ==
    (Compared /\ ret.kind = "comparison") =>
        LET both == {m \in FourMetrics :
                        /\ DefinedIn(baselines[args[1]], m)
                        /\ DefinedIn(currentMetrics[args[1]], m)}
        IN  /\ DOMAIN ret.value.summary = both
            /\ DOMAIN ret.value.improvements \subseteq both
            /\ DOMAIN ret.value.regressions \subseteq both

\* a comparison of bags that share one tracked metric, with one tracked
\* metric on the baseline side only and one untracked metric on both
C9_Witness ==
    /\ Compared
    /\ ret.kind = "comparison"
    /\ DOMAIN ret.value.summary = {"renderTime"}
    /\ DefinedIn(baselines[args[1]], "bundleSize")
    /\ DefinedIn(baselines[args[1]], "fps")
    /\ DefinedIn(currentMetrics[args[1]], "fps")

\* C10: for every compared metric, difference = current - baseline; the
\* metric is in improvements exactly when current < baseline, in
\* regressions exactly when current > baseline, in neither when they are
\* equal, and summary.improved is true exactly for the improvements.
C10_Classification ==
    (Compared /\ ret.kind = "comparison") =>
        \A m \in DOMAIN ret.value.summary :
            LET b == baselines[args[1]][m]
                c == currentMetrics[args[1]][m]
                e == ret.value.summary[m]
            IN  /\ e.difference = JsSub(c, b)
                /\ (m \in DOMAIN ret.value.improvements) = JsLt(c, b)
                /\ (m \in DOMAIN ret.value.regressions) = JsGt(c, b)
                /\ e.improved = (m \in DOMAIN ret.value.improvements)
                /\ ~(/\ m \in DOMAIN ret.value.improvements
                     /\ m \in DOMAIN ret.value.regressions)

\* the documented scenario: three improvements, no regression
C10_Witness ==
    /\ Compared
    /\ ret.kind = "comparison"
    /\ DOMAIN ret.value.improvements
           = {"renderTime", "memoryUsage", "loadTime"}
    /\ DOMAIN ret.value.regressions = {}
    /\ ret.value.summary.renderTime.baseline = Rat(285, 10)
    /\ ret.value.summary.renderTime.current = Rat(123, 10)
    /\ ret.value.summary.renderTime.percentChange = Rat(-1080, 19)

\* C11: when the baseline value of a compared metric is 0, the summary
\* reports percentChange 0 for it, and no summary, improvements or
\* regressions entry carries a NaN or an infinite value.
C11_ZeroBaselinePercentChange ==
    (Compared /\ ret.kind = "comparison") =>
        /\ \A m \in DOMAIN ret.value.summary :
               LET e == ret.value.summary[m]
               IN  /\ e.baseline = Num(0) => e.percentChange = Num(0)
                   /\ IsFinite(e.difference)
                   /\ IsFinite(e.percentChange)
        /\ \A m \in DOMAIN ret.value.improvements :
               IsFinite(ret.value.improvements[m])
        /\ \A m \in DOMAIN ret.value.regressions :
               IsFinite(ret.value.regressions[m])

\* the same statement for the metrics whose baseline value is not 0
C11_NonZeroBaselineFinite ==
    (Compared /\ ret.kind = "comparison") =>
        \A m \in DOMAIN ret.value.summary :
            LET e == ret.value.summary[m]
            IN  e.baseline # Num(0) =>
                    /\ IsFinite(e.percentChange)
                    /\ m \in DOMAIN ret.value.improvements =>
                           IsFinite(ret.value.improvements[m])
                    /\ m \in DOMAIN ret.value.regressions =>
                           IsFinite(ret.value.regressions[m])

----------------------------------------------------------------------------
(* PerformanceMonitor: trackComponentDependency, getComponentDependencies. *)

\* "Keep only last 100 renders per component"
RenderHistoryCap == 100

\* A JavaScript Set is the sequence of its values in insertion order.
Elements(s) == {s[i] : i \in 1..Len(s)}

\* an add that appends without looking for the value
SetAddAgain(s, x) == Append(s, x)

\* set.add(x)
SetAdd(s, x) == IF x \in Elements(s) THEN s ELSE Append(s, x)

\* a membership test that only looks whether the set holds anything
ChildrenHasAny(children, name) == children # <<>>

\* children.has(componentName)
ChildrenHas(children, name) == name \in Elements(children)

\* dependencyGraph is the sequence of its entries [parent, children] in
\* insertion order: dependencyGraph.has(name), dependencyGraph.get(name)
GraphHas(graph, name) == \E i \in 1..Len(graph) : graph[i].parent = name
GraphGet(graph, name) ==
    graph[CHOOSE i \in 1..Len(graph) : graph[i].parent = name].children

\* the graph after "if (!has(parent)) set(parent, new Set())" and
\* "get(parent).add(child)"
GraphAdd(graph, parent, child) ==
    LET created == IF ~GraphHas(graph, parent)
                   THEN Append(graph, [parent |-> parent, children |-> <<>>])
                   ELSE graph
        i == CHOOSE j \in 1..Len(created) : created[j].parent = parent
    IN  [created EXCEPT ![i].children = SetAdd(@, child)]

\* renderHistory.get(name) || []
HistoryOf(histories, name) ==
    IF name \in DOMAIN histories THEN histories[name] ELSE <<>>

HistoryEntry(parentComponent, renderTime, timestamp) ==
    [timestamp |-> timestamp, renderTime |-> renderTime,
     parentComponent |-> parentComponent, context |-> "dependency"]

\* history after history.push(entry) and the eviction
StoreRender(history, entry) == PushCapped(history, entry, RenderHistoryCap)

\* elapsed: the milliseconds by which Date.now() advances before the next
\* reading
TrackComponentDependency(parentComponent, childComponent, renderTime, elapsed) ==
    LET entry == HistoryEntry(parentComponent, renderTime, now)
    IN  /\ dependencyGraph' =
               GraphAdd(dependencyGraph, parentComponent, childComponent)
        /\ renderHistory' =
               MapSet(renderHistory, childComponent,
                      StoreRender(HistoryOf(renderHistory, childComponent),
                                  entry))
        /\ histLog' =
               MapSet(histLog, childComponent,
                      Append(HistoryOf(histLog, childComponent), entry))
        /\ trackLog' = trackLog \cup {<<parentComponent, childComponent>>}
        /\ now' = now + elapsed
        /\ Done("trackComponentDependency",
                <<parentComponent, childComponent, renderTime>>, Void)
        /\ UNCHANGED <<monitorVars, enhancedVars, comparatorVars, hasMemory,
                       logVars, sessionVars, scan, hostVars, hookVars>>

\* the parents pushed by the loop over dependencyGraph.entries()
RECURSIVE Dependents(_, _)
Dependents(graph, name) ==
    IF graph = <<>> THEN <<>>
    ELSE (IF ChildrenHas(Head(graph).children, name)
          THEN <<Head(graph).parent>> ELSE <<>>)
         \o Dependents(Tail(graph), name)

\* the object returned by getComponentDependencies, as its callers inside
\* the monitor read it
GetComponentDependencies(graph, histories, componentName) ==
    [dependencies |-> IF GraphHas(graph, componentName)
                      THEN GraphGet(graph, componentName) ELSE <<>>,
     dependents |-> Dependents(graph, componentName),
     renderHistory |-> HistoryOf(histories, componentName)]

\* getComponentDependencies(name) called from outside, statement by
\* statement: the call, one iteration of the for-of loop, the return
GetDependenciesCall(componentName) ==
    /\ ~scan.active
    /\ scan' = [active |-> TRUE, name |-> componentName, pos |-> 1,
                dependents |-> <<>>]
    /\ UNCHANGED <<monitorVars, enhancedVars, comparatorVars, envVars,
                   logVars, trackerVars, sessionVars, lastOp, args, ret,
                   hostVars, hookVars>>

GetDependenciesLoop ==
    /\ scan.active
    /\ scan.pos <= Len(dependencyGraph)
    /\ scan' = [scan EXCEPT
                   !.pos = @ + 1,
                   !.dependents =
                       IF ChildrenHas(dependencyGraph[scan.pos].children,
                                      scan.name)
                       THEN Append(@, dependencyGraph[scan.pos].parent)
                       ELSE @]
    /\ UNCHANGED <<monitorVars, enhancedVars, comparatorVars, envVars,
                   logVars, trackerVars, sessionVars, lastOp, args, ret,
                   hostVars, hookVars>>

GetDependenciesReturn ==
    /\ scan.active
    /\ scan.pos > Len(dependencyGraph)
    /\ scan' = NoScan
    /\ Done("getComponentDependencies", <<scan.name>>,
            [kind |-> "dependencies",
             value |->
                 [dependencies |->
                      IF GraphHas(dependencyGraph, scan.name)
                      THEN GraphGet(dependencyGraph, scan.name) ELSE <<>>,
                  dependents |-> scan.dependents,
                  renderHistory |-> HistoryOf(renderHistory, scan.name)]])
    /\ UNCHANGED <<monitorVars, enhancedVars, comparatorVars, envVars,
                   logVars, trackerVars, sessionVars, hostVars, hookVars>>

----------------------------------------------------------------------------
(* SpecTrack: dependencies tracked past the cap of a render history.       *)

TrackParents == {"App", "List"}
TrackChildren == {"List", "Item"}
TrackDuration == 5

\* a list that renders its item again and again, and a bounded number of
\* other parent and child pairs, tracked during the first renders of the
\* item or once its history is full; every call reads a later Date.now()
NextTrack ==
    \/ /\ Len(HistoryOf(histLog, "Item")) < MaxTrackOps
       /\ TrackComponentDependency("List", "Item", TrackDuration, 1)
       /\ UNCHANGED ops
    \/ /\ Counted(MaxTrackOthers)
       /\ \/ Len(HistoryOf(histLog, "Item")) <= MaxTrackEarly
          \/ Len(HistoryOf(histLog, "Item")) >= RenderHistoryCap
       /\ \E parent \in TrackParents, child \in TrackChildren :
              TrackComponentDependency(parent, child, TrackDuration, 1)

SpecTrack == Init /\ [][NextTrack]_vars

\* the children tracked under a parent, and the parents a child was
\* tracked under
TrackedUnder(parent) == {pc[2] : pc \in {x \in trackLog : x[1] = parent}}
TrackedOver(child) == {pc[1] : pc \in {x \in trackLog : x[2] = child}}

\* C17: each parent's child collection holds every child tracked under it
\* exactly once, and each child's render history has at most 100 entries
\* and is the most recent min(k, 100) of the k entries appended for it, in
\* append order.
C17_ChildrenOnceHistoryCapped ==
    /\ \A parent \in {pc[1] : pc \in trackLog} :
           /\ GraphHas(dependencyGraph, parent)
           /\ Elements(GraphGet(dependencyGraph, parent))
                  = TrackedUnder(parent)
           /\ Len(GraphGet(dependencyGraph, parent))
                  = Cardinality(TrackedUnder(parent))
    /\ \A child \in DOMAIN histLog :
           /\ Len(HistoryOf(renderHistory, child)) <= RenderHistoryCap
           /\ HistoryOf(renderHistory, child)
                  = LastN(histLog[child], RenderHistoryCap)

\* more than 100 entries were appended for Item, tracked again and again
\* under List, which has a second child
C17_Witness ==
    /\ "Item" \in DOMAIN histLog
    /\ Len(histLog["Item"]) > RenderHistoryCap
    /\ Len(renderHistory["Item"]) = RenderHistoryCap
    /\ renderHistory["Item"][1].timestamp > 1
    /\ GraphHas(dependencyGraph, "List")
    /\ Len(GraphGet(dependencyGraph, "List")) = 2

----------------------------------------------------------------------------
(* SpecDeps: dependencies tracked between a few names, self-edges and      *)
(* cycles included, and queried; a query runs to completion before the     *)
(* next call starts.                                                       *)

DepNames == {"A", "B"}
DepQueryNames == {"A", "B", "C"}

NextDeps ==
    \/ /\ Counted(MaxDepOps)
       /\ ~scan.active
       /\ \E parent \in DepNames, child \in DepNames :
              TrackComponentDependency(parent, child, TrackDuration, 1)
    \/ /\ Counted(MaxDepOps)
       /\ \E name \in DepQueryNames : GetDependenciesCall(name)
    \/ /\ GetDependenciesLoop
       /\ UNCHANGED ops
    \/ /\ GetDependenciesReturn
       /\ UNCHANGED ops

\* a call that was started keeps executing
DepsRun == (GetDependenciesLoop \/ GetDependenciesReturn) /\ UNCHANGED ops

SpecDeps == Init /\ [][NextDeps]_vars /\ WF_vars(DepsRun)

\* C18: every call of getComponentDependencies(name) returns; it returns
\* as dependencies the children tracked under name and as dependents the
\* parents name was tracked under, each once; for a name never tracked all
\* three lists are empty; the call leaves the graph as it was.
C18_DependenciesTerminate ==
    /\ [][(scan.active /\ ~scan'.active) =>
             LET name == args'[1]
                 v == ret'.value
             IN  /\ lastOp' = "getComponentDependencies"
                 /\ name = scan.name
                 /\ Elements(v.dependencies) = TrackedUnder(name)
                 /\ Len(v.dependencies) = Cardinality(TrackedUnder(name))
                 /\ Elements(v.dependents) = TrackedOver(name)
                 /\ Len(v.dependents) = Cardinality(TrackedOver(name))
                 /\ (TrackedUnder(name) = {} /\ TrackedOver(name) = {}) =>
                        /\ v.dependencies = <<>>
                        /\ v.dependents = <<>>
                        /\ v.renderHistory = <<>>]_vars
    /\ [][scan.active => dependencyGraph' = dependencyGraph]_vars
    /\ (scan.active ~> ~scan.active)

\* a query of A returned while A -> A and the cycle A -> B -> A are in the
\* graph
C18_Witness ==
    /\ lastOp = "getComponentDependencies"
    /\ args[1] = "A"
    /\ {<<"A", "A">>, <<"A", "B">>, <<"B", "A">>} \subseteq trackLog
    /\ Len(ret.value.dependents) = 2
    /\ Len(ret.value.dependencies) = 2

----------------------------------------------------------------------------
(* PerformanceMonitor: analyzeComponentBottlenecks.                        *)

\* "if (history.length < 5) continue"
MinHistory == 5
\* history.slice(-10)
RecentRenders == 10
\* dependencies.dependencies.length > 10
MaxChildComponents == 10

IssueSlow == "Slow render time"
IssueFrequent == "High re-render frequency"
IssueChildren == "Too many child components"

\* a data test that only skips the components without any history
InsufficientDataEmpty(history) == Len(history) < 1

\* history.length < 5
InsufficientData(history) == Len(history) < MinHistory

RECURSIVE SumRenderTimes(_)
SumRenderTimes(history) ==
    IF history = <<>> THEN 0
    ELSE Head(history).renderTime + SumRenderTimes(Tail(history))

\* recentHistory.length / (timeSpan / 1000)
RenderFrequency(recentHistory) ==
    LET timeSpan == recentHistory[Len(recentHistory)].timestamp
                        - recentHistory[1].timestamp
    IN  JsDiv(Num(Len(recentHistory)), JsDiv(Num(timeSpan), Num(1000)))

\* recentHistory.reduce((sum, h) => sum + h.renderTime, 0) / length
AvgRenderTime(recentHistory) ==
    JsDiv(Num(SumRenderTimes(recentHistory)), Num(Len(recentHistory)))

\* an analysis over the whole history instead of its last entries
RecentHistoryAll(history) == history

\* history.slice(-10)
RecentHistory(history) == LastN(history, RecentRenders)

\* the entry pushed for a component with sufficient data, with the value
\* of isBottleneck
BottleneckOf(componentName, graph, histories, budgets) ==
    LET dependencies == GetComponentDependencies(graph, histories,
                                                 componentName)
        recentHistory == RecentHistory(dependencies.renderHistory)
        renderFrequency == RenderFrequency(recentHistory)
        avgRenderTime == AvgRenderTime(recentHistory)
        slow == JsGt(avgRenderTime, Num(budgets.renderTime))
        frequent == JsGt(renderFrequency, Num(budgets.reRendersPerSecond))
        crowded == Len(dependencies.dependencies) > MaxChildComponents
    IN  [isBottleneck |-> slow \/ frequent \/ crowded,
         entry |->
             [componentName |-> componentName,
              avgRenderTime |-> avgRenderTime,
              renderFrequency |-> renderFrequency,
              dependencyCount |-> Len(dependencies.dependencies),
              dependentCount |-> Len(dependencies.dependents),
              issues |->
                  (IF slow THEN <<IssueSlow>> ELSE <<>>)
                  \o (IF frequent THEN <<IssueFrequent>> ELSE <<>>)
                  \o (IF crowded THEN <<IssueChildren>> ELSE <<>>),
              recommendations |->
                  (IF slow
                   THEN <<"Consider memoization with React.memo()">>
                   ELSE <<>>)
                  \o (IF frequent
                      THEN <<"Check for unnecessary prop changes or state updates">>
                      ELSE <<>>)
                  \o (IF crowded
                      THEN <<"Consider component composition or virtualization">>
                      ELSE <<>>)]]

\* bottlenecks.sort((a, b) => b.avgRenderTime - a.avgRenderTime); entries
\* of equal average keep the insertion order of componentRenderTimes,
\* which a function does not record: one of the sorted orders is taken
RECURSIVE SortByAvgRenderTime(_)
SortByAvgRenderTime(entries) ==
    IF entries = {} THEN <<>>
    ELSE LET top == CHOOSE e \in entries :
                        \A f \in entries :
                            ~JsGt(f.avgRenderTime, e.avgRenderTime)
         IN  <<top>> \o SortByAvgRenderTime(entries \ {top})

\* the array analyzeComponentBottlenecks returns
Bottlenecks(renderTimes, graph, histories, budgets) ==
    SortByAvgRenderTime(
        {BottleneckOf(name, graph, histories, budgets).entry :
            name \in {n \in DOMAIN renderTimes :
                         /\ ~InsufficientData(HistoryOf(histories, n))
                         /\ BottleneckOf(n, graph, histories,
                                         budgets).isBottleneck}})

AnalyzeComponentBottlenecks ==
    /\ Done("analyzeComponentBottlenecks", <<>>,
            [kind |-> "bottlenecks",
             list |-> Bottlenecks(componentRenderTimes, dependencyGraph,
                                  renderHistory, performanceBudgets)])
    /\ UNCHANGED <<monitorVars, enhancedVars, comparatorVars, envVars,
                   logVars, profilingVars, hostVars, hookVars>>

----------------------------------------------------------------------------
(* SpecBottle: a list tracked under its parent, its items tracked under    *)
(* it, its render measured and the bottlenecks analysed.                   *)

\* the name of the k-th item of the list
ItemName(k) == "Item" \o ToString(k)

BottleDurations == {10, 40}
\* milliseconds between two readings of Date.now()
BottleElapsed == {0, 250}
BottleMeasured == 8

\* the items are tracked, each once and in order, before the list is
\* first tracked under its own parent
NextBottle ==
    \/ /\ Len(HistoryOf(renderHistory, "List")) < MaxListRenders
       /\ \E t \in BottleDurations, e \in BottleElapsed :
              /\ e = 0 \/ now < 1 + 250 * MaxClockSteps
              /\ TrackComponentDependency("App", "List", t, e)
       /\ UNCHANGED ops
    \/ /\ HistoryOf(renderHistory, "List") = <<>>
       /\ LET k == Len(GetComponentDependencies(dependencyGraph,
                           renderHistory, "List").dependencies) + 1
          IN  /\ k <= MaxItems
              /\ TrackComponentDependency("List", ItemName(k), 5, 0)
       /\ UNCHANGED ops
    \/ /\ MeasureComponentRender("List", BottleMeasured)
       /\ UNCHANGED ops
    \/ /\ AnalyzeComponentBottlenecks
       /\ UNCHANGED ops

SpecBottle == Init /\ [][NextBottle]_vars

Analyzed == lastOp = "analyzeComponentBottlenecks"

\* the names listed by the analysis last returned
Listed == {ret.list[i].componentName : i \in 1..Len(ret.list)}

\* C12: analyzeComponentBottlenecks never lists a component whose render
\* history holds fewer than 5 entries, whatever its durations, frequency
\* and number of children, nor a component without a recorded render time.
C12_NeedsHistoryAndRenderTime ==
    Analyzed =>
        \A name \in Listed :
            /\ Len(HistoryOf(renderHistory, name)) >= MinHistory
            /\ name \in DOMAIN componentRenderTimes

\* an analysis that lists nothing although List has a render time, 11
\* children and 4 history entries of 40 ms within the same millisecond
C12_Witness ==
    /\ Analyzed
    /\ ret.list = <<>>
    /\ "List" \in DOMAIN componentRenderTimes
    /\ Len(HistoryOf(renderHistory, "List")) = MinHistory - 1
    /\ \A i \in 1..(MinHistory - 1) :
           /\ renderHistory["List"][i].renderTime = 40
           /\ renderHistory["List"][i].timestamp = 1
    /\ Len(GetComponentDependencies(dependencyGraph, renderHistory,
                                    "List").dependencies)
           > MaxChildComponents

\* an analysis that lists nothing although List has 5 history entries of
\* 40 ms, because it has no recorded render time
C12_WitnessNoRenderTime ==
    /\ Analyzed
    /\ ret.list = <<>>
    /\ "List" \notin DOMAIN componentRenderTimes
    /\ Len(HistoryOf(renderHistory, "List")) = MinHistory
    /\ \A i \in 1..MinHistory : renderHistory["List"][i].renderTime = 40

\* an analysis that lists List once it has 5 entries and a render time
C12_WitnessListed ==
    /\ Analyzed
    /\ Listed = {"List"}

\* the entries analysed for name all carry the same timestamp
ZeroTimeSpan(name) ==
    LET recent == LastN(HistoryOf(renderHistory, name), RecentRenders)
    IN  /\ Len(HistoryOf(renderHistory, name)) >= MinHistory
        /\ recent[Len(recent)].timestamp = recent[1].timestamp

\* C13: when the entries analysed for a component all carry the same
\* timestamp, the frequency condition is skipped: the component gets no
\* high re-render frequency issue, and it is not listed when its average
\* render time is within the renderTime budget and it has at most 10
\* children.
C13_ZeroSpanSkipsFrequency ==
    Analyzed =>
        \A name \in DOMAIN componentRenderTimes :
            ZeroTimeSpan(name) =>
                LET recent == LastN(renderHistory[name], RecentRenders)
                    children == GetComponentDependencies(
                                    dependencyGraph, renderHistory,
                                    name).dependencies
                IN  /\ \A i \in 1..Len(ret.list) :
                           ret.list[i].componentName = name =>
                               /\ IssueFrequent \notin
                                      Elements(ret.list[i].issues)
                               /\ IsFinite(ret.list[i].renderFrequency)
                    /\ (/\ SumRenderTimes(recent)
                               <= performanceBudgets.renderTime * Len(recent)
                        /\ Len(children) <= MaxChildComponents)
                           => name \notin Listed

\* the frequency issue is reported only for a frequency above the budget
\* when the time span is positive
C13_PositiveSpanFrequency ==
    Analyzed =>
        \A i \in 1..Len(ret.list) :
            LET name == ret.list[i].componentName
                recent == LastN(renderHistory[name], RecentRenders)
                span == recent[Len(recent)].timestamp - recent[1].timestamp
            IN  span > 0 =>
                    /\ IsFinite(ret.list[i].renderFrequency)
                    /\ (IssueFrequent \in Elements(ret.list[i].issues))
                           = (Len(recent) * 1000
                                  > performanceBudgets.reRendersPerSecond
                                        * span)

----------------------------------------------------------------------------
(* PerformanceMonitor: startProfilingSession, takePerformanceSnapshot,     *)
(* endProfilingSession.                                                    *)

\* the completion of a call that ended in a TypeError
Thrown == [kind |-> "TypeError"]

\* performance.memory ? performance.memory.usedJSHeapSize : 0
HeapUsedOrZero(used) == IF hasMemory THEN used ELSE 0

\* a test of the slot against null only
NoActiveSessionNull(slot) == slot = Null

\* !this.currentSession
NoActiveSession(slot) == slot \in {Null, Void}

\* the object built by takePerformanceSnapshot; its call of
\* checkPerformanceBudgets is SnapshotCheck
Snapshot(label, used) ==
    [label |-> label,
     timestamp |-> now,
     memory |-> HeapUsedOrZero(used),
     componentCount |-> Cardinality(DOMAIN componentRenderTimes),
     renderTimes |-> componentRenderTimes,
     budgetViolations |-> CurrentViolations]

\* this.checkPerformanceBudgets() as called by takePerformanceSnapshot
SnapshotCheck ==
    /\ budgetViolations' =
           StoreViolations(budgetViolations, CurrentViolations, now)
    /\ batchLog' =
           IF CurrentViolations # <<>>
           THEN Append(batchLog, [timestamp |-> now,
                                  violations |-> CurrentViolations])
           ELSE batchLog

\* a snapshot that is pushed onto the snapshots of the active session
SessionAfterSnapshotPushed(slot, snapshot) ==
    IF NoActiveSession(slot) \/ slot.kind # "session" THEN slot
    ELSE [slot EXCEPT !.snapshots = Append(@, snapshot)]

\* takePerformanceSnapshot only returns the snapshot: this.currentSession
\* is not read or written
SessionAfterSnapshot(slot, snapshot) == slot

\* takePerformanceSnapshot(label) called from outside
TakePerformanceSnapshot(label, used) ==
    /\ SnapshotCheck
    /\ currentSession' =
           SessionAfterSnapshot(currentSession, Snapshot(label, used))
    /\ now' = now + 1
    /\ Done("takePerformanceSnapshot", <<label>>,
            [kind |-> "snapshot", value |-> Snapshot(label, used)])
    /\ UNCHANGED <<componentRenderTimes, bundleLoadTimes, memoryUsage,
                   slowComponents, performanceBudgets, enhancedVars,
                   comparatorVars, hasMemory, renderLog, memLog,
                   trackerVars, sessionLog, scan, hostVars, hookVars>>

\* a start that keeps the session already in the slot
StartedSlotIfIdle(slot, session) ==
    IF NoActiveSession(slot) THEN session ELSE slot

\* this.currentSession = session
StartedSlot(slot, session) == session

StartProfilingSession(sessionName, used) ==
    LET session ==
            [kind |-> "session",
             name |-> sessionName,
             startTime |-> now,
             startMemory |-> HeapUsedOrZero(used),
             initialComponentCount |->
                 Cardinality(DOMAIN componentRenderTimes),
             snapshots |-> <<Snapshot("session-start", used)>>]
    IN  /\ SnapshotCheck
        /\ currentSession' = StartedSlot(currentSession, session)
        /\ sessionLog' =
               Append(sessionLog,
                      [op |-> "start", name |-> sessionName,
                       startTime |-> now,
                       componentCount |->
                           Cardinality(DOMAIN componentRenderTimes)])
        /\ now' = now + 1
        /\ Done("startProfilingSession", <<sessionName>>, session)
        /\ UNCHANGED <<componentRenderTimes, bundleLoadTimes, memoryUsage,
                       slowComponents, performanceBudgets, enhancedVars,
                       comparatorVars, hasMemory, renderLog, memLog,
                       trackerVars, scan, hostVars, hookVars>>

\* a count of new components taken from the first snapshot
NewComponentsFirst(snapshots, initialComponentCount) ==
    snapshots[1].componentCount - initialComponentCount

\* session.snapshots[session.snapshots.length - 1].componentCount
\*     - session.initialComponentCount
NewComponents(snapshots, initialComponentCount) ==
    snapshots[Len(snapshots)].componentCount - initialComponentCount

RECURSIVE CountViolations(_)
CountViolations(snapshots) ==
    IF snapshots = <<>> THEN 0
    ELSE Len(Head(snapshots).budgetViolations)
             + CountViolations(Tail(snapshots))

\* the report of endProfilingSession for the session in the slot
SessionReport(session, used) ==
    LET snapshots == Append(session.snapshots,
                            Snapshot("session-end", used))
        ended == [kind |-> "session",
                  name |-> session.name,
                  startTime |-> session.startTime,
                  startMemory |-> session.startMemory,
                  initialComponentCount |-> session.initialComponentCount,
                  snapshots |-> snapshots,
                  endTime |-> now,
                  duration |-> now - session.startTime,
                  endMemory |-> HeapUsedOrZero(used),
                  memoryDelta |->
                      HeapUsedOrZero(used) - session.startMemory]
    IN  [kind |-> "report",
         session |-> ended,
         analysis |->
             [duration |-> ended.duration,
              memoryDelta |-> ended.memoryDelta,
              newComponents |->
                  NewComponents(snapshots, session.initialComponentCount),
              bottlenecks |->
                  Bottlenecks(componentRenderTimes, dependencyGraph,
                              renderHistory, performanceBudgets),
              budgetViolations |-> CountViolations(snapshots)]]

\* a slot that passes the test without holding an object makes
\* "session.endTime = ..." throw
EndProfilingSession(used) ==
    /\ sessionLog' = Append(sessionLog, [op |-> "end"])
    /\ IF NoActiveSession(currentSession)
       THEN /\ Done("endProfilingSession", <<>>, Null)
            /\ UNCHANGED <<budgetViolations, batchLog, currentSession, now>>
       ELSE IF currentSession.kind # "session"
       THEN /\ Done("endProfilingSession", <<>>, Thrown)
            /\ UNCHANGED <<budgetViolations, batchLog, currentSession, now>>
       ELSE /\ SnapshotCheck
            /\ currentSession' = Null
            /\ now' = now + 1
            /\ Done("endProfilingSession", <<>>,
                    SessionReport(currentSession, used))
    /\ UNCHANGED <<componentRenderTimes, bundleLoadTimes, memoryUsage,
                   slowComponents, performanceBudgets, enhancedVars,
                   comparatorVars, hasMemory, renderLog, memLog,
                   trackerVars, scan, hostVars, hookVars>>

----------------------------------------------------------------------------
(* SpecSession: sessions started and ended, snapshots taken and renders    *)
(* measured in every order.                                                *)

SessionNames == {"load", "scroll"}
SessionHeapUsed == {60 * MB}
SessionComponents == {"Analysis", "Header"}
SessionDuration == 20

NextSession ==
    \/ /\ Counted(MaxSessionOps)
       /\ \E name \in SessionNames, used \in SessionHeapUsed :
              StartProfilingSession(name, used)
    \/ /\ Counted(MaxSessionOps)
       /\ \E used \in SessionHeapUsed : EndProfilingSession(used)
    \/ /\ Counted(MaxSessionOps)
       /\ \E used \in SessionHeapUsed :
              TakePerformanceSnapshot("snapshot", used)
    \/ /\ Counted(MaxSessionOps)
       /\ \E name \in SessionComponents :
              MeasureComponentRender(name, SessionDuration)

SpecSession == Init /\ [][NextSession]_vars

\* the sessions started since the last end, oldest first
RECURSIVE StartsSinceEnd(_)
StartsSinceEnd(log) ==
    IF log = <<>> THEN <<>>
    ELSE IF log[Len(log)].op = "end" THEN <<>>
    ELSE Append(StartsSinceEnd(SubSeq(log, 1, Len(log) - 1)),
                log[Len(log)])

Ended == lastOp = "endProfilingSession"

\* C14: endProfilingSession called while no session is active (before any
\* start, or after a previous end) returns null, does not throw, and
\* leaves the session slot, the metrics maps and the violation history
\* unchanged.
C14_EndWithoutSession ==
    [][(lastOp' = "endProfilingSession" /\ StartsSinceEnd(sessionLog) = <<>>)
           => /\ ret' = Null
              /\ UNCHANGED <<currentSession, monitorVars, dependencyGraph,
                             renderHistory>>]_vars

\* an end before any start, with a render time recorded
C14_Witness ==
    /\ Ended
    /\ ret = Null
    /\ sessionLog = <<[op |-> "end"]>>
    /\ currentSession = Void
    /\ DOMAIN componentRenderTimes # {}

\* an end after an end, with a violation batch in the history
C14_WitnessAfterEnd ==
    /\ Ended
    /\ ret = Null
    /\ Len(sessionLog) = 3
    /\ sessionLog[1].op = "start"
    /\ sessionLog[2].op = "end"
    /\ currentSession = Null
    /\ budgetViolations # <<>>

\* C15: one slot holds the active session: a start never throws and puts
\* its session in the slot, whatever the slot held; an end reports the
\* session started last since the previous end, and returns null when none
\* was, so a session replaced by a later start is reported by no end.
C15_SingleSessionSlot ==
    /\ [][lastOp' = "startProfilingSession" =>
             /\ ret'.kind = "session"
             /\ ret'.name = args'[1]
             /\ currentSession' = ret']_vars
    /\ [][lastOp' = "endProfilingSession" =>
             LET started == StartsSinceEnd(sessionLog)
             IN  IF started = <<>> THEN ret' = Null
                 ELSE /\ ret'.kind = "report"
                      /\ ret'.session.name = started[Len(started)].name
                      /\ ret'.session.startTime
                             = started[Len(started)].startTime]_vars

\* load started, scroll started over it, an end that reported scroll and
\* a second end that returned null
C15_Witness ==
    /\ Ended
    /\ ret = Null
    /\ Len(sessionLog) = 4
    /\ sessionLog[1].op = "start" /\ sessionLog[1].name = "load"
    /\ sessionLog[2].op = "start" /\ sessionLog[2].name = "scroll"
    /\ sessionLog[3].op = "end"
    /\ sessionLog[4].op = "end"

\* C16: endProfilingSession called while a session is active returns a
\* report of that session whose last snapshot is the one labelled
\* session-end, whose newComponents is the component count of that
\* snapshot minus the count at the start, and leaves the slot idle: an end
\* that directly follows returns null.
C16_EndReportsSession ==
    /\ [][(lastOp' = "endProfilingSession"
               /\ StartsSinceEnd(sessionLog) # <<>>) =>
             LET started == StartsSinceEnd(sessionLog)
                 snapshots == ret'.session.snapshots
                 final == snapshots[Len(snapshots)]
             IN  /\ ret'.kind = "report"
                 /\ final.label = "session-end"
                 /\ \A i \in 1..(Len(snapshots) - 1) :
                        snapshots[i].label # "session-end"
                 /\ final.componentCount
                        = Cardinality(DOMAIN componentRenderTimes)
                 /\ ret'.analysis.newComponents
                        = final.componentCount
                              - started[Len(started)].componentCount
                 /\ currentSession' = Null]_vars
    /\ [][(Ended /\ lastOp' = "endProfilingSession") => ret' = Null]_vars

\* an end that reported a session during which a component was first
\* rendered and a snapshot was taken from outside (its check and the one
\* of the end each stored a batch)
C16_Witness ==
    /\ Ended
    /\ ret.kind = "report"
    /\ ret.analysis.newComponents = 1
    /\ ret.session.initialComponentCount = 0
    /\ Len(ret.session.snapshots) = 2
    /\ currentSession = Null
    /\ Len(sessionLog) = 2
    /\ Len(budgetViolations) = 2

----------------------------------------------------------------------------
(* SpecStore: renders recorded through the enhanced object and measured    *)
(* by the monitor, memory sampled, a dependency tracked, budgets checked   *)
(* and the data cleared, in every order.                                   *)

StoreNames == {"Analysis", "Header"}
\* a duration at the slow-render threshold and one above it
StoreDurations == {16, 40}
StoreHeapUsed == {60 * MB}

NextStore ==
    \/ /\ Counted(MaxStoreOps)
       /\ \E name \in StoreNames, d \in StoreDurations :
              RecordRender(name, d)
    \/ /\ Counted(MaxStoreOps)
       /\ \E name \in StoreNames, d \in StoreDurations :
              MeasureComponentRender(name, d)
    \/ /\ Counted(MaxStoreOps)
       /\ \E used \in StoreHeapUsed : MeasureMemoryUsageCall(used)
    \/ /\ Counted(MaxStoreOps)
       /\ \E d \in StoreDurations :
              TrackComponentDependency("App", "Analysis", d, 1)
    \/ /\ Counted(MaxStoreOps)
       /\ CheckPerformanceBudgets
    \/ /\ Counted(MaxStoreOps)
       /\ ClearData

SpecStore == Init /\ [][NextStore]_vars

\* getPerformanceData().slowComponents:
\* Array.from(performanceMonitor.metrics.slowComponents)
ReportedSlowComponents == slowComponents

\* C19: after recordRender(name, durationMs) with durationMs greater than
\* the slow-render threshold, name is in the slow-component set and so in
\* the report's slowComponents.
C19_RecordRenderMarksSlow ==
    (lastOp = "recordRender" /\ args[2] > SlowRenderThreshold) =>
        args[1] \in ReportedSlowComponents

\* the same statement for measureComponentRender
C19_MeasureMarksSlow ==
    (lastOp = "measureComponentRender" /\ args[2] > SlowRenderThreshold) =>
        args[1] \in ReportedSlowComponents

\* C20: after clearData every map and sequence of the monitor is empty:
\* render times, load times, slow-component set, memory samples,
\* per-component metrics, and also the dependency graph, the render
\* histories and the budget-violation history.
C20_ClearEmptiesEverything ==
    lastOp = "clearData" =>
        /\ componentRenderTimes = EmptyMap
        /\ bundleLoadTimes = EmptyMap
        /\ slowComponents = {}
        /\ memoryUsage = <<>>
        /\ pdRenderTimes = <<>>
        /\ pdMemoryUsage = <<>>
        /\ pdComponentMetrics = EmptyMap
        /\ dependencyGraph = <<>>
        /\ renderHistory = EmptyMap
        /\ budgetViolations = <<>>

\* the same statement for the collections clearData names
C20_ClearEmptiesSamples ==
    lastOp = "clearData" =>
        /\ componentRenderTimes = EmptyMap
        /\ bundleLoadTimes = EmptyMap
        /\ slowComponents = {}
        /\ memoryUsage = <<>>
        /\ pdRenderTimes = <<>>
        /\ pdMemoryUsage = <<>>
        /\ pdComponentMetrics = EmptyMap

----------------------------------------------------------------------------
(* The timers of initializePerformanceMonitoring: the interval of          *)
(* detectMemoryLeaks and memoryInterval (MemoryIntervalTick above).        *)

\* measurements after one firing of measure: a usage is pushed, null is not
Measured(list, usage) == IF hasMemory THEN Append(list, usage) ELSE list

\* one firing of the interval of detectMemoryLeaks; the trend over the last
\* ten measurements only prints a warning
LeakDetectorTick(used) ==
    /\ leakTimer
    /\ MeasureMemoryUsage(used)
    /\ measurements' = Measured(measurements, Usage(used))
    /\ Done("detectMemoryLeaks", <<>>, Void)
    /\ UNCHANGED <<componentRenderTimes, bundleLoadTimes, slowComponents,
                   performanceBudgets, budgetViolations, enhancedVars,
                   comparatorVars, profilingVars, hasMemory, renderLog,
                   batchLog, memoryTimer, devtoolsTimers, development,
                   windowMonitor, hookVars>>

\* window.stopMemoryMonitoring(): clearInterval(memoryInterval) and the
\* cleanup of detectMemoryLeaks
StopMemoryMonitoring ==
    /\ memoryTimer' = FALSE
    /\ leakTimer' = FALSE
    /\ Done("stopMemoryMonitoring", <<>>, Void)
    /\ UNCHANGED <<monitorVars, pdRenderTimes, pdMemoryUsage,
                   pdComponentMetrics, isMonitoring, protoProps,
                   comparatorVars, profilingVars, envVars, logVars,
                   measurements, devtoolsTimers, development, windowMonitor,
                   hookVars>>

\* the recurring timers created by initializePerformanceMonitoring that are
\* still scheduled
ScheduledTimers ==
    (IF memoryTimer THEN {"memoryInterval"} ELSE {})
        \cup (IF leakTimer THEN {"detectMemoryLeaks"} ELSE {})
        \cup (IF devtoolsTimers > 0 THEN {"enableDevtools"} ELSE {})

----------------------------------------------------------------------------
(* SpecTimer: monitoring started and stopped while the two timers fire.    *)

MaxTimerOps == 5
TimerHeapUsed == {60 * MB}

NextTimer ==
    \/ StartMonitoring /\ Counted(MaxTimerOps)
    \/ StopMonitoring /\ Counted(MaxTimerOps)
    \/ StopMemoryMonitoring /\ Counted(MaxTimerOps)
    \/ \E used \in TimerHeapUsed :
           MemoryIntervalTick(used) /\ Counted(MaxTimerOps)
    \/ \E used \in TimerHeapUsed :
           LeakDetectorTick(used) /\ Counted(MaxTimerOps)

SpecTimer == Init /\ [][NextTimer]_vars

\* C21: while monitoring is stopped through stopMonitoring(), no recurring
\* timer created by initializePerformanceMonitoring remains scheduled
\* (sampling can resume only through a timer created by a later start).
C21_StopReleasesTimers ==
    (~isMonitoring) => ScheduledTimers = {}

\* what stopMonitoring() does release: the interval of detectMemoryLeaks
C21_StopReleasesLeakDetector ==
    (~isMonitoring) => "detectMemoryLeaks" \notin ScheduledTimers

\* stopMonitoring() while stopped returns undefined and changes nothing
C21_StopWhileStoppedIsNoOp ==
    [][(~isMonitoring /\ lastOp' = "stopMonitoring") =>
           /\ ret' = Void
           /\ UNCHANGED <<monitorVars, enhancedVars, hostVars>>]_vars

\* startMonitoring() creates no timer: the samples taken after a stop and a
\* start come from the memoryInterval that was never cancelled
C21_StartCreatesNoTimer ==
    [][lastOp' = "startMonitoring" =>
           UNCHANGED <<memoryTimer, leakTimer>>]_vars

----------------------------------------------------------------------------
(* The host page: what window.performanceMonitor and                        *)
(* window.performanceComparator refer to, from the import of the module to *)
(* initializePerformanceMonitoring.                                        *)

\* methods of the PerformanceMonitor class, reached through the prototype
InstanceMethods ==
    {"measureComponentRender", "measureBundleLoad", "measureMemoryUsage",
     "generateReport", "getAverageMemoryUsage", "generateRecommendations",
     "setPerformanceBudget", "checkPerformanceBudgets",
     "trackComponentDependency", "getComponentDependencies",
     "analyzeComponentBottlenecks", "startProfilingSession",
     "takePerformanceSnapshot", "endProfilingSession"}

\* functions of the object literal { ...performanceMonitor, ... }: the
\* spread copies the own fields of the instance, none of its methods
EnhancedMethods ==
    {"getPerformanceData", "recordRender", "recordMemory", "startMonitoring",
     "stopMonitoring", "clearData"}

\* methods of the PerformanceComparator class
ComparatorMethods ==
    {"setBaseline", "recordCurrent", "comparePerformance",
     "generateComparisonReport", "benchmark", "clearData", "exportData"}

\* window.performanceComparator is set at import in development only
WindowComparator == IF development THEN "comparator" ELSE "none"

\* typeof object[method] === 'function'
Provides(object, method) ==
    \/ object = "instance" /\ method \in InstanceMethods
    \/ object = "enhanced" /\ method \in EnhancedMethods
    \/ object = "comparator" /\ method \in ComparatorMethods

\* the page after the module was imported and before
\* initializePerformanceMonitoring: enableDevtools ran once, and in
\* development it set window.performanceMonitor to the instance and started
\* a leak detector
InitImported ==
    /\ componentRenderTimes = EmptyMap
    /\ bundleLoadTimes = EmptyMap
    /\ memoryUsage = <<>>
    /\ slowComponents = {}
    /\ performanceBudgets = DefaultBudgets
    /\ budgetViolations = <<>>
    /\ pdRenderTimes = <<>>
    /\ pdMemoryUsage = <<>>
    /\ pdComponentMetrics = EmptyMap
    /\ isMonitoring = FALSE
    /\ leakTimer = FALSE
    /\ protoProps = [x \in ObjectProtoKeys |-> NoMetricsProps]
    /\ baselines = EmptyMap
    /\ currentMetrics = EmptyMap
    /\ comparisonResults = <<>>
    /\ now = 1
    /\ hasMemory \in BOOLEAN
    /\ ops = 0
    /\ lastOp = "import"
    /\ args = <<>>
    /\ ret = Void
    /\ renderLog = EmptyMap
    /\ memLog = <<>>
    /\ batchLog = <<>>
    /\ dependencyGraph = <<>>
    /\ renderHistory = EmptyMap
    /\ currentSession = Void
    /\ scan = NoScan
    /\ histLog = EmptyMap
    /\ trackLog = {}
    /\ sessionLog = <<>>
    /\ memoryTimer = FALSE
    /\ measurements = <<>>
    /\ development \in BOOLEAN
    /\ devtoolsTimers = IF development THEN 1 ELSE 0
    /\ windowMonitor = IF development THEN "instance" ELSE "none"
    /\ startTimeRef = Null
    /\ hookMetrics = EmptyMap
    /\ timingLog = EmptyMap

\* initializePerformanceMonitoring() with the default configuration, called
\* once: enableDevtools again, detectMemoryLeaks, a fresh performanceData,
\* the enhanced object and memoryInterval
InitializePerformanceMonitoring ==
    /\ windowMonitor # "enhanced"
    /\ devtoolsTimers' = IF development THEN devtoolsTimers + 1
                         ELSE devtoolsTimers
    /\ leakTimer' = TRUE
    /\ measurements' = <<>>
    /\ pdRenderTimes' = <<>>
    /\ pdMemoryUsage' = <<>>
    /\ pdComponentMetrics' = EmptyMap
    /\ isMonitoring' = TRUE
    /\ windowMonitor' = "enhanced"
    /\ memoryTimer' = TRUE
    /\ Done("initializePerformanceMonitoring", <<>>,
            [kind |-> "monitoring", monitor |-> "enhanced"])
    /\ UNCHANGED <<monitorVars, protoProps, comparatorVars, envVars, logVars,
                   profilingVars, development, hookVars>>

\* one firing of the interval of a detector started by enableDevtools
DevtoolsDetectorTick(used) ==
    /\ devtoolsTimers > 0
    /\ MeasureMemoryUsage(used)
    /\ Done("detectMemoryLeaks", <<>>, Void)
    /\ UNCHANGED <<componentRenderTimes, bundleLoadTimes, slowComponents,
                   performanceBudgets, budgetViolations, enhancedVars,
                   comparatorVars, profilingVars, hasMemory, renderLog,
                   batchLog, hostVars, hookVars>>

----------------------------------------------------------------------------
(* getPerformanceData of the enhanced object.                              *)

\* the elements of a Map's values() in some order
RECURSIVE ValuesOf(_)
ValuesOf(f) ==
    IF DOMAIN f = {} THEN <<>>
    ELSE LET x == CHOOSE y \in DOMAIN f : TRUE
         IN  <<f[x]>> \o ValuesOf([z \in DOMAIN f \ {x} |-> f[z]])

\* the properties of the returned literal written before the spread
MonitorView ==
    [renderTimes |-> ValuesOf(componentRenderTimes),
     memoryUsage |-> [i \in 1..Len(memoryUsage) |-> memoryUsage[i].used],
     componentMetrics |->
         [name \in DOMAIN componentRenderTimes |->
              [renderCount |-> Num(1),
               averageRenderTime |-> Num(componentRenderTimes[name]),
               maxRenderTime |-> Num(componentRenderTimes[name])]],
     bundleAnalysis |-> bundleLoadTimes,
     slowComponents |-> slowComponents]

\* the performanceData object of the closure
PerformanceData ==
    [renderTimes |-> pdRenderTimes,
     memoryUsage |-> pdMemoryUsage,
     componentMetrics |-> pdComponentMetrics,
     bundleAnalysis |-> EmptyMap,
     isMonitoring |-> isMonitoring]

\* { ...first, ...second }: a property of second replaces the one of first
Spread(first, second) ==
    [k \in DOMAIN first \cup DOMAIN second |->
         IF k \in DOMAIN second THEN second[k] ELSE first[k]]

\* the object getPerformanceData returns
PerformanceDataValue == Spread(MonitorView, PerformanceData)

\* generateReport() and the literal read the monitor and change nothing
GetPerformanceData ==
    /\ Done("getPerformanceData", <<>>,
            [kind |-> "performanceData", value |-> PerformanceDataValue])
    /\ UNCHANGED <<monitorVars, enhancedVars, comparatorVars, envVars,
                   logVars, profilingVars, hostVars, hookVars>>

----------------------------------------------------------------------------
(* React bindings: usePerformanceMonitor, withPerformanceMonitoring and    *)
(* the timing functions of usePerformanceMonitoring.                       *)

\* the cleanup of the effect of usePerformanceMonitor(componentName)
UsePerformanceMonitorCleanup(componentName, renderTime) ==
    /\ componentRenderTimes' =
           MapSet(componentRenderTimes, componentName, renderTime)
    /\ Done("usePerformanceMonitor", <<componentName, renderTime>>, Void)
    /\ UNCHANGED <<bundleLoadTimes, memoryUsage, slowComponents,
                   performanceBudgets, budgetViolations, enhancedVars,
                   comparatorVars, envVars, logVars, profilingVars,
                   hostVars, hookVars>>

\* the effect of a component wrapped by withPerformanceMonitoring
WithPerformanceMonitoringEffect(componentName, renderTime) ==
    /\ componentRenderTimes' =
           MapSet(componentRenderTimes, componentName, renderTime)
    /\ slowComponents' =
           IF renderTime > SlowRenderThreshold
           THEN slowComponents \cup {componentName}
           ELSE slowComponents
    /\ Done("withPerformanceMonitoring", <<componentName, renderTime>>, Void)
    /\ UNCHANGED <<bundleLoadTimes, memoryUsage, performanceBudgets,
                   budgetViolations, enhancedVars, comparatorVars, envVars,
                   logVars, profilingVars, hostVars, hookVars>>

\* a value of performance.now() held by a ref
Reading(ms) == [kind |-> "number", value |-> ms]

\* startTiming(operationName); elapsed is the time until the next reading
\* of performance.now()
StartTiming(operationName, elapsed) ==
    /\ startTimeRef' = Reading(now)
    /\ timingLog' = MapSet(timingLog, operationName, now)
    /\ now' = now + elapsed
    /\ Done("startTiming", <<operationName>>,
            [kind |-> "operation", name |-> operationName])
    /\ UNCHANGED <<monitorVars, enhancedVars, comparatorVars, hasMemory,
                   logVars, profilingVars, hostVars, hookMetrics>>

\* the calls endTiming makes on window.performanceMonitor, in order
EndTimingCalls == <<"recordRender", "checkPerformanceBudgets">>

\* a call of the sequence hits a property that is not a function
ThrowsOn(object, calls) ==
    object # "none" /\ \E i \in 1..Len(calls) : ~Provides(object, calls[i])

\* the value endTiming returns
Duration(ms) == [kind |-> "duration", value |-> ms]

\* endTiming(operationName): the TypeError of a missing method leaves the
\* function before startTimeRef.current = null
EndTiming(operationName, elapsed) ==
    LET timed == startTimeRef # Null
        duration == IF timed THEN now - startTimeRef.value ELSE 0
        thrown == timed /\ ThrowsOn(windowMonitor, EndTimingCalls)
        recorded == timed /\ Provides(windowMonitor, EndTimingCalls[1])
        checked == timed /\ windowMonitor # "none" /\ ~thrown
    IN  /\ hookMetrics' = IF timed
                          THEN MapSet(hookMetrics, operationName, duration)
                          ELSE hookMetrics
        /\ IF recorded
           THEN RecordRenderBody(operationName, duration)
           ELSE UNCHANGED <<componentRenderTimes, pdRenderTimes,
                            pdComponentMetrics, protoProps, renderLog>>
        /\ IF checked
           THEN LET violations == Violations(componentRenderTimes',
                                             memoryUsage, performanceBudgets)
                IN  /\ budgetViolations' =
                           StoreViolations(budgetViolations, violations, now)
                    /\ batchLog' =
                           IF violations # <<>>
                           THEN Append(batchLog, [timestamp |-> now,
                                                  violations |-> violations])
                           ELSE batchLog
           ELSE UNCHANGED <<budgetViolations, batchLog>>
        /\ startTimeRef' = IF timed /\ ~thrown THEN Null ELSE startTimeRef
        /\ timingLog' = [x \in DOMAIN timingLog \ {operationName} |->
                             timingLog[x]]
        /\ now' = now + elapsed
        /\ Done("endTiming", <<operationName>>,
                IF thrown THEN Thrown ELSE Duration(duration))
        /\ UNCHANGED <<bundleLoadTimes, memoryUsage, slowComponents,
                       performanceBudgets, pdMemoryUsage, isMonitoring,
                       leakTimer, comparatorVars, hasMemory, memLog,
                       profilingVars, hostVars>>

----------------------------------------------------------------------------
(* Console helpers of performanceAnalysisExamples.js (the functions of     *)
(* window.performanceAnalysis), called with their default arguments.       *)

\* per helper: the window object it dereferences first, the method it calls
\* on it, and whether it tests the object before
ConsoleHelpers ==
    [quickCheck |->
         [receiver |-> "performanceMonitor", method |-> "getPerformanceData",
          guarded |-> TRUE],
     analyzeComponent |->
         [receiver |-> "performanceMonitor", method |-> "getPerformanceData",
          guarded |-> FALSE],
     checkMemoryLeaks |->
         [receiver |-> "performanceMonitor", method |-> "getPerformanceData",
          guarded |-> FALSE],
     detectRegressions |->
         [receiver |-> "performanceComparator",
          method |-> "generateComparisonReport", guarded |-> FALSE],
     setPerformanceBudgets |->
         [receiver |-> "performanceMonitor", method |-> "setPerformanceBudget",
          guarded |-> FALSE],
     checkBudgetStatus |->
         [receiver |-> "performanceMonitor",
          method |-> "checkPerformanceBudgets", guarded |-> FALSE],
     analyzeDependencies |->
         [receiver |-> "performanceMonitor",
          method |-> "analyzeComponentBottlenecks", guarded |-> FALSE],
     takeSnapshot |->
         [receiver |-> "performanceMonitor",
          method |-> "takePerformanceSnapshot", guarded |-> FALSE],
     endProfilingSession |->
         [receiver |-> "performanceMonitor", method |-> "endProfilingSession",
          guarded |-> FALSE]]

\* the object the helper dereferences, "none" for undefined
HelperReceiver(helper) ==
    IF ConsoleHelpers[helper].receiver = "performanceMonitor"
    THEN windowMonitor ELSE WindowComparator

\* the helper gets to call its method
HelperRuns(helper) ==
    Provides(HelperReceiver(helper), ConsoleHelpers[helper].method)

\* the helper returns early: only a tested, undefined object
HelperUnavailable(helper) ==
    ConsoleHelpers[helper].guarded /\ HelperReceiver(helper) = "none"

\* a helper that does not get to its method: the early return, or the
\* TypeError of a property read on undefined or of a call of undefined
HelperFails(helper) ==
    /\ ~HelperRuns(helper)
    /\ Done("console", <<helper>>,
            IF HelperUnavailable(helper) THEN Void ELSE Thrown)
    /\ UNCHANGED <<monitorVars, enhancedVars, comparatorVars, envVars,
                   logVars, profilingVars, hostVars, hookVars>>

\* a helper that only reads: it returns value
HelperReturns(helper, arguments, value) ==
    /\ HelperRuns(helper)
    /\ Done("console", <<helper>> \o arguments, value)
    /\ UNCHANGED <<monitorVars, enhancedVars, comparatorVars, envVars,
                   logVars, profilingVars, hostVars, hookVars>>

QuickCheck ==
    \/ HelperFails("quickCheck")
    \/ HelperReturns("quickCheck", <<>>,
           [kind |-> "performanceData", value |-> PerformanceDataValue])

\* data.componentMetrics[componentName]: an own entry, a function inherited
\* from Object.prototype, or undefined; averageRenderTime.toFixed throws on
\* a function that was never recorded
AnalyzeComponent(componentName) ==
    LET metrics == PerformanceDataValue.componentMetrics
        component == MetricsOf(metrics, protoProps, componentName)
    IN  \/ HelperFails("analyzeComponent")
        \/ HelperReturns("analyzeComponent", <<componentName>>,
               IF ~HasTruthy(metrics, componentName) THEN Void
               ELSE IF component.averageRenderTime = Undefined THEN Thrown
               ELSE [kind |-> "component", value |-> component])

\* the percentage by which the mean of the last five samples exceeds the
\* mean of the five before them
MemoryIncrease(samples) ==
    LET recent == LastN(samples, 5)
        older == SubSeq(samples, Len(samples) - 9, Len(samples) - 5)
        recentAvg == JsDiv(Num(SumSeq(recent)), Num(Len(recent)))
        olderAvg == JsDiv(Num(SumSeq(older)), Num(Len(older)))
    IN  JsMul(JsDiv(JsSub(recentAvg, olderAvg), olderAvg), Num(100))

CheckMemoryLeaks ==
    LET samples == PerformanceDataValue.memoryUsage
    IN  \/ HelperFails("checkMemoryLeaks")
        \/ HelperReturns("checkMemoryLeaks", <<>>,
               [kind |-> "boolean",
                value |-> IF Len(samples) < 10 THEN FALSE
                          ELSE JsGt(MemoryIncrease(samples), Num(10))])

\* report.detailedResults.filter(result =>
\*     Object.keys(result.regressions).length > 0)
Regressed(result) == DOMAIN result.regressions # {}

DetectRegressions ==
    \/ HelperFails("detectRegressions")
    \/ HelperReturns("detectRegressions", <<>>,
           [kind |-> "regressions",
            list |-> SelectSeq(comparisonResults, Regressed)])

\* defaultBudgets of setPerformanceBudgets
HelperBudgets ==
    [renderTime |-> 16,
     totalRenderTime |-> 100,
     memoryUsage |-> 50 * MB,
     componentCount |-> 100,
     reRendersPerSecond |-> 30]

\* setPerformanceBudget(type, value) for every entry of the defaults
SetPerformanceBudgets ==
    \/ HelperFails("setPerformanceBudgets")
    \/ /\ HelperRuns("setPerformanceBudgets")
       /\ performanceBudgets' =
              [t \in DOMAIN performanceBudgets |->
                   IF t \in DOMAIN HelperBudgets THEN HelperBudgets[t]
                   ELSE performanceBudgets[t]]
       /\ Done("console", <<"setPerformanceBudgets">>,
               [kind |-> "budgets", value |-> HelperBudgets])
       /\ UNCHANGED <<componentRenderTimes, bundleLoadTimes, memoryUsage,
                      slowComponents, budgetViolations, enhancedVars,
                      comparatorVars, envVars, logVars, profilingVars,
                      hostVars, hookVars>>

\* the helpers below return what the method of the monitor returns
CheckBudgetStatus ==
    \/ HelperFails("checkBudgetStatus")
    \/ HelperRuns("checkBudgetStatus") /\ CheckPerformanceBudgets

AnalyzeDependencies ==
    \/ HelperFails("analyzeDependencies")
    \/ HelperRuns("analyzeDependencies") /\ AnalyzeComponentBottlenecks

TakeSnapshot(used) ==
    \/ HelperFails("takeSnapshot")
    \/ /\ HelperRuns("takeSnapshot")
       /\ TakePerformanceSnapshot("manual-snapshot", used)

EndProfilingSessionHelper(used) ==
    \/ HelperFails("endProfilingSession")
    \/ HelperRuns("endProfilingSession") /\ EndProfilingSession(used)

----------------------------------------------------------------------------
(* SpecConsole: the console helpers called on a page that imported the     *)
(* module, before and after initializePerformanceMonitoring, while renders *)
(* are measured and a session is started.                                  *)

MaxConsoleOps == 3
ConsoleNames == {"Analysis", "toString"}
ConsoleDurations == {40}
ConsoleHeapUsed == {60 * MB}

NextConsole ==
    \/ InitializePerformanceMonitoring /\ Counted(MaxConsoleOps)
    \/ QuickCheck /\ Counted(MaxConsoleOps)
    \/ \E name \in ConsoleNames :
           AnalyzeComponent(name) /\ Counted(MaxConsoleOps)
    \/ CheckMemoryLeaks /\ Counted(MaxConsoleOps)
    \/ DetectRegressions /\ Counted(MaxConsoleOps)
    \/ SetPerformanceBudgets /\ Counted(MaxConsoleOps)
    \/ CheckBudgetStatus /\ Counted(MaxConsoleOps)
    \/ AnalyzeDependencies /\ Counted(MaxConsoleOps)
    \/ \E used \in ConsoleHeapUsed :
           TakeSnapshot(used) /\ Counted(MaxConsoleOps)
    \/ \E used \in ConsoleHeapUsed :
           EndProfilingSessionHelper(used) /\ Counted(MaxConsoleOps)
    \/ \E used \in ConsoleHeapUsed :
           StartProfilingSession("user-session", used)
               /\ Counted(MaxConsoleOps)
    \/ \E name \in ConsoleNames, renderTime \in ConsoleDurations :
           /\ Provides(windowMonitor, "recordRender")
           /\ RecordRender(name, renderTime)
           /\ Counted(MaxConsoleOps)

SpecConsole == InitImported /\ [][NextConsole]_vars

\* the helpers named by the contract
AnalysisHelpers ==
    {"quickCheck", "analyzeComponent", "checkMemoryLeaks",
     "checkBudgetStatus", "analyzeDependencies", "takeSnapshot",
     "endProfilingSession", "detectRegressions"}

\* the helper was called while the window object it uses was undefined
CalledUninitialised(helper) ==
    /\ lastOp = "console"
    /\ args[1] = helper
    /\ HelperReceiver(helper) = "none"

\* C22: a console analysis function called while window.performanceMonitor
\* (for detectRegressions, window.performanceComparator) is undefined
\* returns a result or a sentinel and never throws.
C22_UninitialisedHelpersNeverThrow ==
    \A helper \in AnalysisHelpers :
        CalledUninitialised(helper) => ret # Thrown

\* the one helper that tests window.performanceMonitor returns undefined
C22_QuickCheckUnavailable ==
    CalledUninitialised("quickCheck") => ret = Void

----------------------------------------------------------------------------
(* Averages: PerformanceMonitor.getAverageMemoryUsage and                  *)
(* PerformanceComparator.benchmark.                                        *)

\* the digits of a count of hundredths, as toFixed(2) prints them
Hundredths(cents) ==
    ToString(cents \div 100) \o "."
        \o ToString((cents % 100) \div 10) \o ToString(cents % 10)

\* x.toFixed(2): the decimal text rounded to two digits; NaN and the
\* infinities print their names
ToFixed2(x) ==
    LET a == ToNumber(x)
        cents == (2 * 100 * Abs(a.n) + a.d) \div (2 * a.d)
    IN  IF a.k = "NaN" THEN "NaN"
        ELSE IF a.k = "Infinity"
             THEN (IF a.n < 0 THEN "-Infinity" ELSE "Infinity")
        ELSE IF a.n < 0 /\ cents > 0 THEN "-" \o Hundredths(cents)
        ELSE Hundredths(cents)

\* results.reduce((sum, r) => sum + r[field], 0)
RECURSIVE SumField(_, _)
SumField(results, field) ==
    IF results = <<>> THEN 0
    ELSE Head(results)[field] + SumField(Tail(results), field)

\* Math.min(...values): Infinity for no argument
RECURSIVE MinOf(_)
MinOf(values) ==
    IF values = <<>> THEN PosInf
    ELSE LET m == MinOf(Tail(values))
         IN  IF JsLt(Num(Head(values)), m) THEN Num(Head(values)) ELSE m

\* Math.max(...values): -Infinity for no argument
RECURSIVE MaxOf(_)
MaxOf(values) ==
    IF values = <<>> THEN NegInf
    ELSE LET m == MaxOf(Tail(values))
         IN  IF JsGt(Num(Head(values)), m) THEN Num(Head(values)) ELSE m

\* the benchmarkResult built from the results of the loop
BenchmarkResult(componentName, iterations, results) ==
    LET count == Num(Len(results))
        renderTimes == [i \in 1..Len(results) |-> results[i].renderTime]
    IN  [kind |-> "benchmark",
         componentName |-> componentName,
         iterations |-> iterations,
         avgRenderTime |->
             ToFixed2(JsDiv(Num(SumField(results, "renderTime")), count)),
         avgMemoryDelta |->
             ToFixed2(JsDiv(Num(SumField(results, "memoryDelta")), count)),
         minRenderTime |-> ToFixed2(MinOf(renderTimes)),
         maxRenderTime |-> ToFixed2(MaxOf(renderTimes)),
         results |-> results]

\* one pass of the loop per element of runs: the operation takes
\* runs[i].renderTime and allocates runs[i].memoryDelta, which is read as 0
\* without performance.memory
Benchmark(componentName, iterations, runs) ==
    LET results == [i \in 1..iterations |->
                        [renderTime |-> runs[i].renderTime,
                         memoryDelta |-> IF hasMemory
                                         THEN runs[i].memoryDelta ELSE 0]]
    IN  /\ Len(runs) = iterations
        /\ now' = now + SumField(results, "renderTime")
        /\ Done("benchmark", <<componentName, iterations>>,
                BenchmarkResult(componentName, iterations, results))
        /\ UNCHANGED <<monitorVars, enhancedVars, comparatorVars, hasMemory,
                       logVars, profilingVars, hostVars, hookVars>>

\* the value getAverageMemoryUsage returns
AverageMemoryUsage(samples) ==
    IF Len(samples) = 0 THEN Null
    ELSE JsDiv(Num(SumField(samples, "used")), Num(Len(samples)))

GetAverageMemoryUsage ==
    /\ Done("getAverageMemoryUsage", <<>>, AverageMemoryUsage(memoryUsage))
    /\ UNCHANGED <<monitorVars, enhancedVars, comparatorVars, envVars,
                   logVars, profilingVars, hostVars, hookVars>>

----------------------------------------------------------------------------
(* SpecAvg: benchmarks of zero to two iterations, averages and budget      *)
(* checks over empty and non-empty stores.                                 *)

MaxAvgOps == 3
MaxIterations == 2
\* what one run of the benchmarked operation takes and allocates
AvgRuns == {[renderTime |-> 3, memoryDelta |-> 0],
            [renderTime |-> 4, memoryDelta |-> 1024]}
AvgDurations == {40}
AvgHeapUsed == {60 * MB}

\* the sequences of at most n runs
RECURSIVE RunsUpTo(_)
RunsUpTo(n) ==
    IF n = 0 THEN {<<>>}
    ELSE LET shorter == RunsUpTo(n - 1)
         IN  shorter \cup {Append(s, r) : s \in shorter, r \in AvgRuns}

NextAvg ==
    \/ \E runs \in RunsUpTo(MaxIterations) :
           Benchmark("Analysis", Len(runs), runs) /\ Counted(MaxAvgOps)
    \/ GetAverageMemoryUsage /\ Counted(MaxAvgOps)
    \/ CheckPerformanceBudgets /\ Counted(MaxAvgOps)
    \/ \E used \in AvgHeapUsed :
           MeasureMemoryUsageCall(used) /\ Counted(MaxAvgOps)
    \/ \E renderTime \in AvgDurations :
           MeasureComponentRender("Analysis", renderTime)
               /\ Counted(MaxAvgOps)

SpecAvg == Init /\ [][NextAvg]_vars

\* texts of a zero printed with up to two decimals
ZeroTexts == {"0", "0.0", "0.00"}

\* the budget check ran over no component render time and used a mean of 0
CheckedEmpty ==
    lastOp = "checkPerformanceBudgets" /\ DOMAIN componentRenderTimes = {}

\* C23, budget check: with no component render time the mean is 0, so no
\* renderTime violation is reported and no actual value is NaN.
C23_EmptyRenderMeanIsZero ==
    CheckedEmpty =>
        \A i \in 1..Len(ret.list) :
            ret.list[i].type # "renderTime" /\ IsFinite(ret.list[i].actual)

\* C23, memory: with no memory sample getAverageMemoryUsage returns null.
C23_EmptyMemoryAverageIsNull ==
    (lastOp = "getAverageMemoryUsage" /\ memoryUsage = <<>>) => ret = Null

\* C23: every average guards the empty case; benchmark(name, operation, 0)
\* reports an average render time and an average memory delta of 0.
C23_AveragesGuardEmpty ==
    /\ C23_EmptyRenderMeanIsZero
    /\ C23_EmptyMemoryAverageIsNull
    /\ (lastOp = "benchmark" /\ args[2] = 0) =>
           /\ ret.avgRenderTime \in ZeroTexts
           /\ ret.avgMemoryDelta \in ZeroTexts

\* benchmarks of at least one iteration report finite averages
C23_BenchmarkAveragesFinite ==
    (lastOp = "benchmark" /\ args[2] > 0) =>
        /\ ret.avgRenderTime \notin {"NaN", "Infinity", "-Infinity"}
        /\ ret.avgMemoryDelta \notin {"NaN", "Infinity", "-Infinity"}

----------------------------------------------------------------------------
(* SpecSeries: renders recorded through the enhanced object and firings of *)
(* the leak detector, past a hundred of each.                              *)

MaxSeriesRenders == 101
MaxSeriesTicks == 101
SeriesDuration == 5
SeriesHeapUsed == {60 * MB}

NextSeries ==
    \/ /\ Len(pdRenderTimes) < MaxSeriesRenders
       /\ RecordRender("Analysis", SeriesDuration)
       /\ UNCHANGED ops
    \/ /\ Len(measurements) < MaxSeriesTicks
       /\ \E used \in SeriesHeapUsed : LeakDetectorTick(used)
       /\ UNCHANGED ops

SpecSeries == Init /\ [][NextSeries]_vars

\* the memory samples kept by the monitor stay within the cap
C24_MemorySamplesBounded ==
    /\ Len(memoryUsage) <= MemorySampleCap
    /\ Len(PerformanceDataValue.memoryUsage) <= MemorySampleCap

\* C24: after any number of recordRender calls and timer ticks, the
\* render-duration list exposed by getPerformanceData, the memory-usage
\* list and the measurement list of the leak detector each hold at most
\* 100 elements.
C24_SeriesBounded ==
    /\ Len(PerformanceDataValue.renderTimes) <= MemorySampleCap
    /\ C24_MemorySamplesBounded
    /\ Len(measurements) <= MemorySampleCap

\* the leak detector alone outgrows the cap as well
C24_MeasurementsBounded == Len(measurements) <= MemorySampleCap

----------------------------------------------------------------------------
(* SpecRecent: two measured components with histories: Grid, always slow,  *)
(* and List, slow when mounted and fast afterwards, tracked past the ten   *)
(* entries the analysis reads, with or without more than ten children.     *)

MaxGridRenders == 5
MaxRecentRenders == 11
MaxRecentSteps == 2
RecentElapsed == {0, 250}
\* duration of the first render of List and of its later renders
RecentMount == 200
RecentUpdate == 10
RecentGridDuration == 40
RecentMeasured == 8

\* the items are tracked first, then the components are measured, then
\* Grid is tracked and then List
NextRecent ==
    \/ /\ componentRenderTimes = EmptyMap
       /\ LET k == Len(GetComponentDependencies(dependencyGraph,
                           renderHistory, "List").dependencies) + 1
          IN  /\ k <= MaxItems
              /\ TrackComponentDependency("List", ItemName(k), 5, 0)
       /\ UNCHANGED ops
    \/ /\ Len(GetComponentDependencies(dependencyGraph, renderHistory,
                                       "List").dependencies) \in {0, MaxItems}
       /\ HistoryOf(renderHistory, "Grid") = <<>>
       /\ HistoryOf(renderHistory, "List") = <<>>
       /\ \E name \in {"List", "Grid"} :
              /\ name \notin DOMAIN componentRenderTimes
              /\ name = "Grid" => "List" \in DOMAIN componentRenderTimes
              /\ MeasureComponentRender(name, RecentMeasured)
       /\ UNCHANGED ops
    \/ /\ componentRenderTimes # EmptyMap
       /\ HistoryOf(renderHistory, "List") = <<>>
       /\ Len(HistoryOf(renderHistory, "Grid")) < MaxGridRenders
       /\ TrackComponentDependency("App", "Grid", RecentGridDuration, 0)
       /\ UNCHANGED ops
    \/ /\ componentRenderTimes # EmptyMap
       /\ Len(HistoryOf(renderHistory, "List")) < MaxRecentRenders
       /\ \E e \in RecentElapsed :
              /\ e = 0 \/ now < 1 + 250 * MaxRecentSteps
              /\ TrackComponentDependency("App", "List",
                     IF HistoryOf(renderHistory, "List") = <<>>
                     THEN RecentMount ELSE RecentUpdate, e)
       /\ UNCHANGED ops
    \/ /\ componentRenderTimes # EmptyMap
       /\ AnalyzeComponentBottlenecks
       /\ UNCHANGED ops

SpecRecent == Init /\ [][NextRecent]_vars

\* the last ten entries of the history of a component, by position
LastTen(name) ==
    LET history == HistoryOf(renderHistory, name)
        n == IF Len(history) < 10 THEN Len(history) ELSE 10
    IN  [i \in 1..n |-> history[Len(history) - n + i]]

\* the three conditions, over integers: the mean exceeds the budget, the
\* entries per second exceed the budget, more than ten children tracked
AverageOverBudget(name) ==
    SumField(LastTen(name), "renderTime")
        > performanceBudgets.renderTime * Len(LastTen(name))

FrequencyOverBudget(name) ==
    LET recent == LastTen(name)
        span == recent[Len(recent)].timestamp - recent[1].timestamp
    IN  Len(recent) * 1000 > performanceBudgets.reRendersPerSecond * span

TooManyChildren(name) ==
    Cardinality({pair \in trackLog : pair[1] = name}) > 10

ConditionsHolding(name) ==
    (IF AverageOverBudget(name) THEN 1 ELSE 0)
        + (IF FrequencyOverBudget(name) THEN 1 ELSE 0)
        + (IF TooManyChildren(name) THEN 1 ELSE 0)

\* the components the analysis looks at
Analysable ==
    {name \in DOMAIN componentRenderTimes :
        Len(HistoryOf(renderHistory, name)) >= MinHistory}

\* C25: analyzeComponentBottlenecks lists a component with a recorded
\* render time and at least 5 history entries exactly when one of the three
\* conditions holds over its last 10 entries; each listed entry has as many
\* issues as recommendations, one per condition that holds (1 to 3); the
\* list is ordered by non-increasing avgRenderTime.
C25_ListedIffConditionHolds ==
    Analyzed =>
        /\ \A name \in Analysable :
               (name \in Listed) = (ConditionsHolding(name) >= 1)
        /\ \A i \in 1..Len(ret.list) :
               /\ Len(ret.list[i].issues)
                      = ConditionsHolding(ret.list[i].componentName)
               /\ Len(ret.list[i].recommendations)
                      = Len(ret.list[i].issues)
               /\ Len(ret.list[i].issues) \in 1..3
        /\ \A i, j \in 1..Len(ret.list) :
               i < j => ~JsLt(ret.list[i].avgRenderTime,
                              ret.list[j].avgRenderTime)

\* an analysis that listed Grid before List, where List has more entries
\* than the analysis reads, its mount render among the dropped ones, and is
\* listed for its children only
C25_Witness ==
    /\ Analyzed
    /\ Len(ret.list) = 2
    /\ ret.list[1].componentName = "Grid"
    /\ ret.list[2].componentName = "List"
    /\ Len(HistoryOf(renderHistory, "List")) > RecentRenders
    /\ ret.list[2].issues = <<IssueChildren>>

\* an analysis that did not list List although the mean over its whole
\* history exceeds the budget
C25_WitnessNotListed ==
    /\ Analyzed
    /\ "List" \in Analysable
    /\ "List" \notin Listed
    /\ SumField(HistoryOf(renderHistory, "List"), "renderTime")
           > performanceBudgets.renderTime
                 * Len(HistoryOf(renderHistory, "List"))

\* an analysis that listed List first with all three issues
C25_WitnessThreeIssues ==
    /\ Analyzed
    /\ Len(ret.list) = 2
    /\ ret.list[1].componentName = "List"
    /\ Len(ret.list[1].issues) = 3

----------------------------------------------------------------------------
(* SpecSlow: renders measured by measureComponentRender and by components  *)
(* wrapped with withPerformanceMonitoring, slow and fast in every order.   *)

MaxSlowOps == 4
SlowNames == {"Analysis", "Header"}
\* a duration within the threshold, one at it and one above it
SlowDurations == {10, 16, 40}

NextSlow ==
    \/ \E name \in SlowNames, renderTime \in SlowDurations :
           MeasureComponentRender(name, renderTime) /\ Counted(MaxSlowOps)
    \/ \E name \in SlowNames, renderTime \in SlowDurations :
           WithPerformanceMonitoringEffect(name, renderTime)
               /\ Counted(MaxSlowOps)

SpecSlow == Init /\ [][NextSlow]_vars

\* C26: after any sequence of measured renders, a component is in the
\* slow-component set exactly when its most recent measured duration (the
\* one componentRenderTimes holds) exceeds the slowRender threshold.
C26_SlowIffLastRenderSlow ==
    \A name \in DOMAIN componentRenderTimes :
        (name \in slowComponents)
            = (componentRenderTimes[name] > SlowRenderThreshold)

\* one direction holds: a component whose last measured render was slow is
\* in the set
C26_LastRenderSlowIsSlow ==
    \A name \in DOMAIN componentRenderTimes :
        componentRenderTimes[name] > SlowRenderThreshold
            => name \in slowComponents

----------------------------------------------------------------------------
(* C27, under SpecSession.                                                 *)

\* the number of violations the check stamped t found (a check that finds
\* none logs no batch)
FoundAt(log, t) ==
    IF \E i \in 1..Len(log) : log[i].timestamp = t
    THEN Len(log[CHOOSE i \in 1..Len(log) : log[i].timestamp = t].violations)
    ELSE 0

----------------------------------------------------------------------------
(* SpecHook: one component using usePerformanceMonitoring times two        *)
(* operations, interleaved, on a page before and after                     *)
(* initializePerformanceMonitoring.                                        *)

MaxHookOps == 4
HookOperations == {"data-fetch", "render"}
\* milliseconds until the next reading of performance.now()
HookElapsed == {1, 2}

NextHook ==
    \/ \E op \in HookOperations, e \in HookElapsed :
           StartTiming(op, e) /\ Counted(MaxHookOps)
    \/ \E op \in HookOperations, e \in HookElapsed :
           EndTiming(op, e) /\ Counted(MaxHookOps)
    \/ InitializePerformanceMonitoring /\ Counted(MaxHookOps)

SpecHook == InitImported /\ [][NextHook]_vars

\* this step is an endTiming that returns and records the time since the
\* startTiming of the same operation, or returns 0 and records nothing
\* when that operation has no unmatched startTiming
EndTimingMatchesStart ==
    LET op == args'[1]
    IN  IF op \in DOMAIN timingLog
        THEN /\ ret' = Duration(now - timingLog[op])
             /\ op \in DOMAIN hookMetrics'
             /\ hookMetrics'[op] = now - timingLog[op]
        ELSE /\ ret' = Duration(0)
             /\ UNCHANGED <<hookMetrics, componentRenderTimes,
                            pdRenderTimes>>

\* C28: endTiming(op) returns and records the time elapsed since the
\* matching startTiming(op), for every interleaving of the timings of
\* different operations; without a preceding unmatched startTiming it
\* returns 0 and records nothing.
C28_EndTimingMatchesStart ==
    [][lastOp' = "endTiming" => EndTimingMatchesStart]_vars

\* the same on a page without window.performanceMonitor, where endTiming
\* calls nothing that can throw
C28_EndTimingMatchesStartUnmonitored ==
    [][(lastOp' = "endTiming" /\ windowMonitor = "none")
           => EndTimingMatchesStart]_vars

\* what holds: with no timing in progress endTiming returns 0 and records
\* nothing
C28_EndTimingIdle ==
    [][(lastOp' = "endTiming" /\ startTimeRef = Null) =>
           /\ ret' = Duration(0)
           /\ UNCHANGED <<hookMetrics, monitorVars, enhancedVars>>]_vars

\* and a timing that is the only one since the last endTiming is measured
\* from its start, when no call throws
C28_SingleTimingMeasured ==
    [][(/\ lastOp' = "endTiming"
        /\ lastOp = "startTiming"
        /\ args = args'
        /\ ret' # Thrown) => EndTimingMatchesStart]_vars

----------------------------------------------------------------------------
(* SpecWindow: the hook timings and the console budget helpers on a page   *)
(* of either build, before and after initializePerformanceMonitoring.      *)

MaxWindowOps == 3
WindowDurations == {40}

NextWindow ==
    \/ InitializePerformanceMonitoring /\ Counted(MaxWindowOps)
    \/ \E op \in HookOperations, e \in HookElapsed :
           StartTiming(op, e) /\ Counted(MaxWindowOps)
    \/ \E op \in HookOperations, e \in HookElapsed :
           EndTiming(op, e) /\ Counted(MaxWindowOps)
    \/ SetPerformanceBudgets /\ Counted(MaxWindowOps)
    \/ CheckBudgetStatus /\ Counted(MaxWindowOps)
    \/ \E renderTime \in WindowDurations :
           MeasureComponentRender("Analysis", renderTime)
               /\ Counted(MaxWindowOps)

SpecWindow == InitImported /\ [][NextWindow]_vars

\* the operations the hook and the console budget helpers call
RequiredOperations ==
    {"recordRender", "checkPerformanceBudgets", "setPerformanceBudget",
     "getPerformanceData"}

\* endTiming did not throw
C29_EndTimingCompletes == lastOp = "endTiming" => ret # Thrown

\* a console budget helper called with window.performanceMonitor defined
\* did not throw
C29_BudgetHelpersComplete ==
    (/\ lastOp = "console"
     /\ args[1] \in {"setPerformanceBudgets", "checkBudgetStatus"}
     /\ windowMonitor # "none") => ret # Thrown

\* C29: whenever window.performanceMonitor is defined, the class instance
\* set by enableDevtools or the enhanced object, it provides recordRender,
\* checkPerformanceBudgets, setPerformanceBudget and getPerformanceData,
\* so endTiming and the console budget helpers complete without throwing.
C29_WindowMonitorProvidesOperations ==
    /\ windowMonitor # "none" =>
           \A method \in RequiredOperations : Provides(windowMonitor, method)
    /\ C29_EndTimingCompletes
    /\ C29_BudgetHelpersComplete

\* what each object does provide: the instance the two budget methods, the
\* enhanced object recordRender and getPerformanceData
C29_EachObjectProvidesHalf ==
    /\ windowMonitor = "instance" =>
           \A method \in {"checkPerformanceBudgets", "setPerformanceBudget"} :
               Provides(windowMonitor, method)
    /\ windowMonitor = "enhanced" =>
           \A method \in {"recordRender", "getPerformanceData"} :
               Provides(windowMonitor, method)

----------------------------------------------------------------------------
(* SpecData: render times stored through recordRender,                     *)
(* measureComponentRender, usePerformanceMonitor and                       *)
(* withPerformanceMonitoring, read back through getPerformanceData.        *)

MaxDataOps == 3
DataNames == {"Analysis", "Header"}
DataDurations == {40}

NextData ==
    \/ \E name \in DataNames, renderTime \in DataDurations :
           RecordRender(name, renderTime) /\ Counted(MaxDataOps)
    \/ \E name \in DataNames, renderTime \in DataDurations :
           MeasureComponentRender(name, renderTime) /\ Counted(MaxDataOps)
    \/ \E name \in DataNames, renderTime \in DataDurations :
           UsePerformanceMonitorCleanup(name, renderTime)
               /\ Counted(MaxDataOps)
    \/ \E name \in DataNames, renderTime \in DataDurations :
           WithPerformanceMonitoringEffect(name, renderTime)
               /\ Counted(MaxDataOps)
    \/ GetPerformanceData /\ Counted(MaxDataOps)

SpecData == Init /\ [][NextData]_vars

\* getPerformanceData changes no state of the monitor
C30_ReadOnly ==
    [][lastOp' = "getPerformanceData" =>
           UNCHANGED <<monitorVars, enhancedVars, comparatorVars,
                       profilingVars, hostVars>>]_vars

\* every name holding a render time in the store is a key of the
\* componentMetrics getPerformanceData returned
C30_StoredNamesReported ==
    lastOp = "getPerformanceData" =>
        DOMAIN componentRenderTimes \subseteq DOMAIN ret.value.componentMetrics

\* C30: getPerformanceData mutates no monitor state, and every component
\* name that holds a render time in the store, however it was recorded,
\* is a key of the returned componentMetrics.
C30_ReadOnlyAggregate ==
    [][lastOp' = "getPerformanceData" =>
           /\ UNCHANGED <<monitorVars, enhancedVars, comparatorVars,
                          profilingVars, hostVars>>
           /\ DOMAIN componentRenderTimes'
                  \subseteq DOMAIN ret'.value.componentMetrics]_vars

\* the names recorded through recordRender are reported
C30_RecordedNamesReported ==
    lastOp = "getPerformanceData" =>
        DOMAIN renderLog \subseteq DOMAIN ret.value.componentMetrics

====
